---- MODULE Spec2Model ----
(***************************************************************************)
(* Nojoin companion: the capture / mix / segment / upload pipeline and the *)
(* command-driven session state machine.                                   *)
(*                                                                         *)
(* Spec        the Tauri companion (src/companion/src-tauri/src): HTTP     *)
(*             request handlers, the controller thread (run_audio_loop),   *)
(*             capture+mixing threads (start_segment / run_mixing_loop),   *)
(*             segment upload tasks and the post-Stop cleanup thread.      *)
(* SpecTimed   the same with the wall clock running: segment rotation and  *)
(*             the durations of the discard policy.                        *)
(* SpecUpload  the first companion (src/companion/src): one segment thread *)
(*             of start_segment and the retry loop of upload_segment,      *)
(*             step by step.                                               *)
(***************************************************************************)
EXTENDS Integers, Sequences, FiniteSets, TLC

(* ------------------------------- bounds -------------------------------- *)
MaxHandlers == 1
MaxConcurrent == 2
MaxQueue == 2
MaxThreads == 2
MaxSeq == 3
MaxRec == 1
MaxNow == 300
MaxCleanups == 2
MaxTimedThreads == 1
MaxRequests == 4
MaxChunks == 3
MaxMicLen == 2
MaxSysLen == 3
MaxSysChunks == 1
MaxMixChunks == 2
MaxQueued == 2
MaxSegments == 2
MaxLeading == 2
MaxIntervals == 2
MaxParts == 4
MaxOverrunMs == 300
SteadyMs == 299700

(* Seconds that pass in one step of the clock. *)
TickSecs == 150
LiveRequests == 3

(* -------------------------- program constants -------------------------- *)
MAX_SEGMENT_DURATION_SECS == 5 * 60
MAX_ATTEMPTS == 5
FALLBACK_SAMPLE_RATE == 48000
CHUNK_DURATION_MS == 100
RECV_TIMEOUT_MS == 500

(* Option::None of current_recording_id / recording_handle / start time. *)
None == 0
NoTime == -1

(* The values of config.min_meeting_length the model draws from (minutes). *)
MinMeetingLengths == {0, 2}

VARIABLES
    status,                 \* AppState.status
    current_recording_id,   \* AppState.current_recording_id (None = 0)
    current_sequence,       \* AppState.current_sequence
    recording_start_time,   \* AppState.recording_start_time (None = NoTime)
    accumulated_duration,   \* AppState.accumulated_duration, seconds
    min_meeting_length,     \* config.min_meeting_length, minutes
    audio_command,          \* the command channel audio_command_tx -> command_rx
    is_recording,           \* the shared AtomicBool of run_audio_loop
    recording_handle,       \* run_audio_loop's recording_handle (None = 0)
    ctl,                    \* position of the controller thread
    threads,                \* the capture+mixing threads
    uploads,                \* the unfinished segment upload tasks on the threads' runtimes
    progress,               \* per thread, the progress channel (progress_tx -> progress_rx)
    files,                  \* segment files present in the temp directory
    cleanups,               \* post-Stop cleanup threads
    handlers,               \* HTTP request handlers in flight
    next_id,                \* the next recording id the backend issues
    now,                    \* wall clock, seconds
    remote,                 \* what the last step sent out or got back: terminal calls, an upload's result, an HTTP response
    last_submitted,         \* per recording id, the sequence of the segment last handed to upload
    segment_secs,           \* per recording id, the seconds of audio in the segments closed so far, until the session's cleanup
    requests,               \* HTTP requests served so far
    active_secs,            \* seconds spent in active intervals (Start/Resume to Pause/Stop request) since the last Start or Stop request
    up,                     \* the segment thread of the first companion (SpecUpload)
    mix,                    \* the samples of run_mixing_loop (SpecMix)
    upd,                    \* a version check of updater.rs (SpecUpdate)
    seg,                    \* the clock and the chunks of one mixing loop (SpecSegment)
    lk,                     \* the owners of the state mutexes and who is locking them (SpecLock)
    cap                     \* one capture thread's devices, streams and samples (SpecCapture)

sessionVars == <<status, current_recording_id, current_sequence,
                 recording_start_time, accumulated_duration>>
ghostVars == <<last_submitted, segment_secs, active_secs>>

(* A request is accepted: one more is served. *)
Served == requests < MaxRequests /\ requests' = requests + 1

pureVars == <<mix, upd, seg, lk>>

vars == <<status, current_recording_id, current_sequence, recording_start_time,
          accumulated_duration, min_meeting_length, audio_command, is_recording,
          recording_handle, ctl, threads, uploads, progress, files, cleanups,
          handlers, next_id, now, remote, last_submitted, segment_secs, active_secs, requests, up, cap, pureVars>>

Threads == 1..MaxThreads
TimedThreads == 1..MaxTimedThreads
Handlers == 1..MaxHandlers
Concurrent == 1..MaxConcurrent
Cleanups == 1..MaxCleanups

Recordings == 1..MaxRec

NoThread == [pc |-> "none", rid |-> 0, seq |-> 0, seg_start |-> NoTime,
             launch |-> "none"]
NoHandler == [op |-> "none", pc |-> "none", id |-> 0]
NoCleanup == [pc |-> "none", rid |-> 0, duration |-> 0, min |-> 0, d |-> 0]
CtlRecv == [pc |-> "recv", t |-> 0, d |-> 0]
MixIdle == [pc |-> "idle", seq |-> 0, sys_rx |-> <<>>, sys_buffer |-> <<>>,
            mic_data |-> <<>>, collected |-> <<>>, written |-> <<>>, chunks |-> 0,
            legacy_buffer |-> <<>>, legacy_written |-> <<>>]
SegIdle == [pc |-> "idle", seq |-> 0, elapsed_ms |-> 0, waited_ms |-> 0, queued |-> 0,
            recorded_ms |-> 0, late |-> 0, durations |-> <<>>]
UpdIdle == [pc |-> "idle", current |-> <<>>, latest |-> <<>>, newer |-> FALSE]
UpIdle == [pc |-> "idle", rid |-> 0, seq |-> 0, attempts |-> 0, waits |-> <<>>,
           result |-> "none"]
NoWav == [exists |-> FALSE, open |-> FALSE, rate |-> 0, samples |-> 0]
CapIdle == [pc |-> "idle", input |-> "none", output |-> "none", native |-> 0,
            mic_stream |-> FALSE, rate |-> 0, generator |-> FALSE, mic_rx |-> <<>>,
            sent |-> 0, wav |-> NoWav, sys_rx |-> <<>>, sys_calls |-> 0,
            input_level |-> 0, output_level |-> 0, in_seen |-> {}, out_seen |-> {},
            interval |-> 0, orphans |-> 0]

(* ------------------- uploader.rs: the retry loops ---------------------- *)
RECURSIVE Pow2(_)
Pow2(n) == IF n = 0 THEN 1 ELSE 2 * Pow2(n - 1)

NewCall == [attempts |-> 0, waits |-> <<>>, result |-> "none"]

(* A pass that sleeps 2^attempts seconds after every failed attempt, the    *)
(* last one included, before it gives up.                                   *)
UploadAttemptSleepsLast(u, ok) ==
    LET a == u.attempts + 1 IN
    IF ok THEN [u EXCEPT !.attempts = a, !.result = "Ok"]
    ELSE IF a >= MAX_ATTEMPTS
         THEN [u EXCEPT !.attempts = a, !.waits = Append(@, Pow2(a)), !.result = "Err"]
         ELSE [u EXCEPT !.attempts = a, !.waits = Append(@, Pow2(a))]

(* A pass that gives up only when attempts exceeds MAX_ATTEMPTS. *)
UploadAttemptOneMore(u, ok) ==
    LET a == u.attempts + 1 IN
    IF ok THEN [u EXCEPT !.attempts = a, !.result = "Ok"]
    ELSE IF a > MAX_ATTEMPTS THEN [u EXCEPT !.attempts = a, !.result = "Err"]
    ELSE [u EXCEPT !.attempts = a, !.waits = Append(@, Pow2(a))]

(* One pass of the loop of upload_segment: attempts += 1, the request, and  *)
(* either a return or the backoff sleep of 2^attempts seconds.              *)
UploadAttempt(u, ok) ==
    LET a == u.attempts + 1 IN
    IF ok THEN [u EXCEPT !.attempts = a, !.result = "Ok"]
    ELSE IF a >= MAX_ATTEMPTS THEN [u EXCEPT !.attempts = a, !.result = "Err"]
    ELSE [u EXCEPT !.attempts = a, !.waits = Append(@, Pow2(a))]

(* The loop: one pass per answer until a pass returns. The state after a    *)
(* pass and the answers left are bound as values, each computed once.       *)
RECURSIVE UploadRun(_, _)
UploadRun(u, resps) ==
    IF u.result # "none" \/ resps = <<>> THEN u
    ELSE CHOOSE r \in {UploadRun(v, rest) : v \in {UploadAttempt(u, Head(resps))},
                                           rest \in {Tail(resps)}} : TRUE

(* The server's answers to successive requests: TRUE is a success status,  *)
(* FALSE a transport error or a non-success status.                        *)
Responses == {[i \in 1..MAX_ATTEMPTS |-> i > k] : k \in 0..MAX_ATTEMPTS}

upload_segment(resps) == UploadRun(NewCall, resps).result

(* finalize_recording runs the same loop around POST .../finalize. *)
finalize_recording(resps) == UploadRun(NewCall, resps).result

(* ------------------------ server.rs: the handlers ----------------------- *)
FreeHandler(h) ==
    /\ handlers[h].op = "none"
    /\ \A g \in Handlers : g < h => handlers[g].op # "none"

Elapsed(start) == now - start

Command(op, id, d) == [op |-> op, id |-> id, d |-> d]

(* The HTTP response of a handler. *)
Response(op, code) == [op |-> op, result |-> code]

(* A status check that lets every Start request through. *)
StartCheckAny(h) ==
    /\ FreeHandler(h)
    /\ Served
    /\ handlers' = [handlers EXCEPT ![h] = [op |-> "start", pc |-> "init", id |-> 0]]
    /\ remote' = <<>>
    /\ UNCHANGED <<sessionVars, min_meeting_length, audio_command, is_recording,
                   recording_handle, ctl, threads, uploads, progress, files,
                   cleanups, next_id, now, ghostVars, up, cap, pureVars>>

(* start_recording, lines 211-223: the status check passes. *)
StartCheck(h) ==
    /\ FreeHandler(h)
    /\ Served
    /\ status \in {"Idle", "BackendOffline"}
    /\ handlers' = [handlers EXCEPT ![h] = [op |-> "start", pc |-> "init", id |-> 0]]
    /\ remote' = <<>>
    /\ UNCHANGED <<sessionVars, min_meeting_length, audio_command, is_recording,
                   recording_handle, ctl, threads, uploads, progress, files,
                   cleanups, next_id, now, ghostVars, up, cap, pureVars>>

(* start_recording, lines 211-222: any other status: 400 "Already          *)
(* recording", and the handler returns.                                     *)
StartReject(h) ==
    /\ FreeHandler(h)
    /\ Served
    /\ status \notin {"Idle", "BackendOffline"}
    /\ remote' = <<Response("start", "BAD_REQUEST")>>
    /\ UNCHANGED <<sessionVars, min_meeting_length, audio_command, is_recording,
                   recording_handle, ctl, threads, uploads, progress, files,
                   cleanups, handlers, next_id, now, ghostVars, up, cap, pureVars>>

(* start_recording, lines 245-265 and 293-304: the backend's answer to      *)
(* /recordings/init, and on an id the four writes to the session.           *)
StartInit(h, ok) ==
    /\ handlers[h].op = "start" /\ handlers[h].pc = "init"
    /\ IF ok
       THEN /\ next_id <= MaxRec
            /\ current_recording_id' = next_id
            /\ current_sequence' = 1
            /\ recording_start_time' = now
            /\ accumulated_duration' = 0
            /\ next_id' = next_id + 1
            /\ handlers' = [handlers EXCEPT ![h] = [op |-> "start", pc |-> "send", id |-> next_id]]
            /\ active_secs' = 0
       ELSE /\ handlers' = [handlers EXCEPT ![h] = NoHandler]
            /\ UNCHANGED <<current_recording_id, current_sequence, recording_start_time,
                           accumulated_duration, next_id, active_secs>>
    /\ remote' = <<>>
    /\ UNCHANGED <<status, min_meeting_length, audio_command, is_recording,
                   recording_handle, ctl, threads, uploads, progress, files,
                   cleanups, now, last_submitted, segment_secs, requests, up, cap, pureVars>>

(* start_recording, lines 267-270: audio_command_tx.send(Start(id)). *)
StartSend(h) ==
    /\ handlers[h].op = "start" /\ handlers[h].pc = "send"
    /\ Len(audio_command) < MaxQueue
    /\ audio_command' = Append(audio_command, Command("Start", handlers[h].id, 0))
    /\ handlers' = [handlers EXCEPT ![h].pc = "status"]
    /\ remote' = <<>>
    /\ UNCHANGED <<sessionVars, min_meeting_length, is_recording,
                   recording_handle, ctl, threads, uploads, progress, files,
                   cleanups, next_id, now, ghostVars, requests, up, cap, pureVars>>

(* start_recording, lines 272-274: status = Recording. *)
StartStatus(h) ==
    /\ handlers[h].op = "start" /\ handlers[h].pc = "status"
    /\ status' = "Recording"
    /\ handlers' = [handlers EXCEPT ![h] = NoHandler]
    /\ remote' = <<>>
    /\ UNCHANGED <<current_recording_id, current_sequence, recording_start_time,
                   accumulated_duration, min_meeting_length, audio_command, is_recording,
                   recording_handle, ctl, threads, uploads, progress, files,
                   cleanups, next_id, now, ghostVars, requests, up, cap, pureVars>>

(* pause_recording, lines 360-374: accumulate the elapsed time. *)
Accumulated ==
    IF recording_start_time # NoTime
    THEN accumulated_duration + Elapsed(recording_start_time)
    ELSE accumulated_duration

(* pause_recording, lines 356-374. *)
pause_recording ==
    /\ Served
    /\ Len(audio_command) < MaxQueue
    /\ status' = "Paused"
    /\ accumulated_duration' = Accumulated
    /\ recording_start_time' = NoTime
    /\ audio_command' = Append(audio_command, Command("Pause", 0, 0))
    /\ remote' = <<>>
    /\ UNCHANGED <<current_recording_id, current_sequence, min_meeting_length,
                   is_recording, recording_handle, ctl, threads, uploads,
                   progress, files, cleanups, handlers, next_id, now,
                   last_submitted, segment_secs, active_secs, up, cap, pureVars>>

(* resume_recording, lines 396-400: the handler's *seq += 1. *)
Resumed(seq) == seq + 1

(* resume_recording, lines 390-406. *)
resume_recording ==
    /\ Served
    /\ Len(audio_command) < MaxQueue
    /\ current_sequence < MaxSeq
    /\ status' = "Recording"
    /\ current_sequence' = Resumed(current_sequence)
    /\ recording_start_time' = now
    /\ audio_command' = Append(audio_command, Command("Resume", 0, 0))
    /\ remote' = <<>>
    /\ UNCHANGED <<current_recording_id, accumulated_duration, min_meeting_length,
                   is_recording, recording_handle, ctl, threads, uploads,
                   progress, files, cleanups, handlers, next_id, now,
                   last_submitted, segment_secs, active_secs, up, cap, pureVars>>

(* stop_recording, lines 326-340. *)
stop_recording ==
    /\ Served
    /\ Len(audio_command) < MaxQueue
    /\ status' = "Uploading"
    /\ recording_start_time' = NoTime
    /\ accumulated_duration' = 0
    /\ audio_command' = Append(audio_command, Command("Stop", 0, active_secs))
    /\ active_secs' = 0
    /\ remote' = <<>>
    /\ UNCHANGED <<current_recording_id, current_sequence, min_meeting_length,
                   is_recording, recording_handle, ctl, threads, uploads,
                   progress, files, cleanups, handlers, next_id, now,
                   last_submitted, segment_secs, up, cap, pureVars>>

(* A health check that writes its result over any status. *)
HealthStatusAlways(s, ok) == IF ok THEN "Idle" ELSE "BackendOffline"

(* main.rs, lines 459-482: the status a health check leaves: Idle for      *)
(* BackendOffline on a success status, BackendOffline for Idle on a         *)
(* non-success status or a transport error.                                 *)
HealthStatus(s, ok) ==
    IF ok
    THEN IF s = "BackendOffline" THEN "Idle" ELSE s
    ELSE IF s = "Idle" THEN "BackendOffline" ELSE s

(* main.rs, lines 459-482: a health check that changes the status. *)
HealthCheck(ok) ==
    /\ HealthStatus(status, ok) # status
    /\ status' = HealthStatus(status, ok)
    /\ remote' = <<>>
    /\ UNCHANGED <<current_recording_id, current_sequence, recording_start_time,
                   accumulated_duration, min_meeting_length, audio_command, is_recording,
                   recording_handle, ctl, threads, uploads, progress, files,
                   cleanups, handlers, next_id, now, ghostVars, requests, up, cap, pureVars>>

Answered(ok) == [op |-> "health", ok |-> ok]

(* main.rs, lines 451-482: one pass of the health check loop, its answer    *)
(* recorded: GET /system/status, then the write to status.                  *)
HealthProbe(ok) ==
    /\ status' = HealthStatus(status, ok)
    /\ remote' = <<Answered(ok)>>
    /\ UNCHANGED <<current_recording_id, current_sequence, recording_start_time,
                   accumulated_duration, min_meeting_length, audio_command, is_recording,
                   recording_handle, ctl, threads, uploads, progress, files,
                   cleanups, handlers, next_id, now, ghostVars, requests, up, cap, pureVars>>

(* --------------- audio.rs: start_segment and the threads ---------------- *)
Active(t) == threads[t].pc \notin {"none", "done"}

Done == [NoThread EXCEPT !.pc = "done"]

(* A JoinHandle that is overwritten detaches its thread; a finished thread  *)
(* nobody can join any more leaves no trace.                                *)
Dropped(ths, h) ==
    IF h # None /\ ths[h].pc = "done" THEN [ths EXCEPT ![h] = NoThread] ELSE ths

FreeThread(ths, t) ==
    /\ ths[t].pc = "none"
    /\ \A u \in Threads : u < t => ths[u].pc # "none"

(* start_segment, lines 209-218: the thread is spawned. *)
Spawned(ths, t, rid, seq, by) ==
    [ths EXCEPT ![t] = [pc |-> "loop", rid |-> rid, seq |-> seq,
                        seg_start |-> NoTime, launch |-> by]]

Joinable(t) == recording_handle = t \/ (ctl.pc # "recv" /\ ctl.t = t)

(* The thread's closure returns: the JoinHandle, if any is held, completes. *)
Exited(ths, t) == [ths EXCEPT ![t] = IF Joinable(t) THEN Done ELSE NoThread]

Pending(t) == {u \in uploads : u.owner = t}

(* lines 502-510: the inner loop ends on the flag or on the duration. *)
SegmentOver(t) ==
    \/ ~is_recording
    \/ Elapsed(threads[t].seg_start) >= MAX_SEGMENT_DURATION_SECS

(* Where run() can return Err: before the first segment (temp directory,   *)
(* no output device, stream build/play), at WavWriter::create and at        *)
(* writer.finalize().                                                       *)
CanFail(t) ==
    \/ threads[t].pc = "loop" /\ (threads[t].launch # "none" \/ is_recording)
    \/ threads[t].pc = "rec" /\ SegmentOver(t)

(* lines 466-471: run() returned Err: status = Error(e). Dropping the tokio *)
(* runtime of run_mixing_loop cancels its unfinished upload tasks.          *)
ThreadFail(t) ==
    /\ CanFail(t)
    /\ status' = "Error"
    /\ threads' = Exited(threads, t)
    /\ uploads' = {u \in uploads : u.owner # t}
    /\ progress' = [progress EXCEPT ![t] = <<>>]
    /\ remote' = <<>>
    /\ UNCHANGED <<current_recording_id, current_sequence, recording_start_time,
                   accumulated_duration, min_meeting_length, audio_command, is_recording,
                   recording_handle, ctl, files, cleanups, handlers, next_id, now,
                   ghostVars, requests, up, cap, pureVars>>

(* A loop that opens the next segment only once its uploads have ended. *)
ThreadOpenAwaiting(t) ==
    /\ threads[t].pc = "loop"
    /\ is_recording
    /\ Pending(t) = {}
    /\ threads' = [threads EXCEPT ![t].pc = "rec", ![t].seg_start = now]
    /\ files' = files \cup {<<threads[t].rid, threads[t].seq>>}
    /\ remote' = <<>>
    /\ UNCHANGED <<sessionVars, min_meeting_length, audio_command, is_recording,
                   recording_handle, ctl, uploads, progress, cleanups,
                   handlers, next_id, now, ghostVars, requests, up, cap, pureVars>>

(* run_mixing_loop, lines 492-499: the flag is set; the segment file        *)
(* temp_{recording_id}_{sequence}.wav is created.                           *)
ThreadOpen(t) ==
    /\ threads[t].pc = "loop"
    /\ is_recording
    /\ threads' = [threads EXCEPT ![t].pc = "rec", ![t].seg_start = now]
    /\ files' = files \cup {<<threads[t].rid, threads[t].seq>>}
    /\ remote' = <<>>
    /\ UNCHANGED <<sessionVars, min_meeting_length, audio_command, is_recording,
                   recording_handle, ctl, uploads, progress, cleanups,
                   handlers, next_id, now, ghostVars, requests, up, cap, pureVars>>

(* line 492 and lines 571-583: the flag is clear; the loop is left. *)
ThreadLeave(t) ==
    /\ threads[t].pc = "loop"
    /\ ~is_recording
    /\ threads' = [threads EXCEPT ![t].pc = "drain", ![t].launch = "none"]
    /\ remote' = <<>>
    /\ UNCHANGED <<sessionVars, min_meeting_length, audio_command, is_recording,
                   recording_handle, ctl, uploads, progress, files, cleanups,
                   handlers, next_id, now, ghostVars, requests, up, cap, pureVars>>

(* lines 567-568: current_sequence += 1, published to the session. *)
Published(seq) == seq + 1

(* A loop that hands the segment to upload but keeps its sequence number   *)
(* and publishes nothing.                                                   *)
ThreadCloseUnpublished(t) ==
    /\ threads[t].pc = "rec"
    /\ SegmentOver(t)
    /\ uploads' = uploads \cup {[owner |-> t, rid |-> threads[t].rid,
                                 seq |-> threads[t].seq]}
    /\ threads' = [threads EXCEPT ![t].pc = "loop",
                                  ![t].seg_start = NoTime, ![t].launch = "none"]
    /\ last_submitted' = [last_submitted EXCEPT ![threads[t].rid] = threads[t].seq]
    /\ segment_secs' = [segment_secs EXCEPT ![threads[t].rid] =
                            @ + Elapsed(threads[t].seg_start)]
    /\ remote' = <<>>
    /\ UNCHANGED <<sessionVars, min_meeting_length, audio_command, is_recording,
                   recording_handle, ctl, progress, files, cleanups, handlers, next_id,
                   now, active_secs, requests, up, cap, pureVars>>

(* lines 502-510 and 546-568: the segment ends; finalize the WAV, spawn the *)
(* upload task, publish the next sequence.                                  *)
ThreadClose(t) ==
    /\ threads[t].pc = "rec"
    /\ SegmentOver(t)
    /\ uploads' = uploads \cup {[owner |-> t, rid |-> threads[t].rid,
                                 seq |-> threads[t].seq]}
    /\ threads' = [threads EXCEPT ![t].pc = "loop", ![t].seq = Published(threads[t].seq),
                                  ![t].seg_start = NoTime, ![t].launch = "none"]
    /\ current_sequence' = Published(threads[t].seq)
    /\ last_submitted' = [last_submitted EXCEPT ![threads[t].rid] = threads[t].seq]
    /\ segment_secs' = [segment_secs EXCEPT ![threads[t].rid] =
                            @ + Elapsed(threads[t].seg_start)]
    /\ remote' = <<>>
    /\ UNCHANGED <<status, current_recording_id, recording_start_time,
                   accumulated_duration, min_meeting_length, audio_command, is_recording,
                   recording_handle, ctl, progress, files, cleanups, handlers, next_id,
                   now, active_secs, requests, up, cap, pureVars>>

(* A thread that returns as soon as the loop is left, its upload tasks      *)
(* still running.                                                           *)
ThreadExitEarly(t) ==
    /\ threads[t].pc = "drain"
    /\ threads' = Exited(threads, t)
    /\ progress' = [progress EXCEPT ![t] = <<>>]
    /\ remote' = <<>>
    /\ UNCHANGED <<sessionVars, min_meeting_length, audio_command, is_recording,
                   recording_handle, ctl, uploads, files, cleanups,
                   handlers, next_id, now, ghostVars, requests, up, cap, pureVars>>

(* lines 585-614: the progress channel is drained until every task has      *)
(* dropped its sender, the handles are awaited, the thread returns.         *)
ThreadExit(t) ==
    /\ threads[t].pc = "drain"
    /\ Pending(t) = {}
    /\ threads' = Exited(threads, t)
    /\ uploads' = {u \in uploads : u.owner # t}
    /\ progress' = [progress EXCEPT ![t] = <<>>]
    /\ remote' = <<>>
    /\ UNCHANGED <<sessionVars, min_meeting_length, audio_command, is_recording,
                   recording_handle, ctl, files, cleanups,
                   handlers, next_id, now, ghostVars, requests, up, cap, pureVars>>

(* upload_segment of the Tauri companion: on success the local segment     *)
(* file is deleted.                                                         *)
remove_uploaded(fs, path, result) == IF result = "Ok" THEN fs \ {path} ELSE fs

(* A task that signals completion whatever upload_segment returned. *)
TaskSignalAlways(u, result) == <<u.seq>>

(* The spawned task, lines 556-564: Ok sends the sequence on the progress   *)
(* channel, Err is logged.                                                  *)
TaskSignal(u, result) == IF result = "Ok" THEN <<u.seq>> ELSE <<>>

Uploaded(u, result) ==
    [op |-> "upload", rid |-> u.rid, seq |-> u.seq, owner |-> u.owner, result |-> result]

(* A task whose permanent failure ends the recording: the flag is cleared   *)
(* and the status becomes Error.                                            *)
UploadTaskAborting(u, resps) ==
    /\ u \in uploads
    /\ LET result == upload_segment(resps) IN
         /\ uploads' = uploads \ {u}
         /\ progress' = [progress EXCEPT ![u.owner] = @ \o TaskSignal(u, result)]
         /\ files' = remove_uploaded(files, <<u.rid, u.seq>>, result)
         /\ remote' = <<Uploaded(u, result)>>
         /\ is_recording' = IF result = "Err" THEN FALSE ELSE is_recording
         /\ status' = IF result = "Err" THEN "Error" ELSE status
    /\ UNCHANGED <<current_recording_id, current_sequence, recording_start_time,
                   accumulated_duration, min_meeting_length, audio_command,
                   recording_handle, ctl, threads, cleanups, handlers, next_id, now,
                   ghostVars, requests, up, cap, pureVars>>

(* lines 549-565: the upload task of one segment, run to its end: the       *)
(* result of upload_segment, the progress signal, the file.                 *)
UploadTask(u, resps) ==
    /\ u \in uploads
    /\ LET result == upload_segment(resps) IN
         /\ uploads' = uploads \ {u}
         /\ progress' = [progress EXCEPT ![u.owner] = @ \o TaskSignal(u, result)]
         /\ files' = remove_uploaded(files, <<u.rid, u.seq>>, result)
         /\ remote' = <<Uploaded(u, result)>>
    /\ UNCHANGED <<sessionVars, min_meeting_length, audio_command, is_recording,
                   recording_handle, ctl, threads, cleanups, handlers, next_id, now,
                   ghostVars, requests, up, cap, pureVars>>

(* ------------------- audio.rs: run_audio_loop (controller) -------------- *)
(* A controller that takes the next command whatever it is doing, a join    *)
(* of the mixing thread included.                                           *)
ReceivesWhileJoining(op) ==
    /\ audio_command # <<>>
    /\ Head(audio_command).op = op

(* line 92: command_rx.recv() at the top of the loop. *)
Receives(op) ==
    /\ ctl.pc = "recv"
    /\ audio_command # <<>>
    /\ Head(audio_command).op = op

(* lines 95-97: Start(id) => start_segment(id, 1, ..). *)
CtlStart(t) ==
    /\ Receives("Start")
    /\ FreeThread(Dropped(threads, recording_handle), t)
    /\ audio_command' = Tail(audio_command)
    /\ is_recording' = TRUE
    /\ threads' = Spawned(Dropped(threads, recording_handle), t,
                          Head(audio_command).id, 1, "Start")
    /\ recording_handle' = t
    /\ remote' = <<>>
    /\ UNCHANGED <<sessionVars, min_meeting_length, ctl, uploads, progress, files,
                   cleanups, handlers, next_id, now, ghostVars, requests, up, cap, pureVars>>

(* lines 98-109: Resume => start_segment(id, current_sequence, ..) when a   *)
(* recording id is set.                                                     *)
CtlResume(t) ==
    /\ Receives("Resume")
    /\ current_recording_id # None
    /\ FreeThread(Dropped(threads, recording_handle), t)
    /\ audio_command' = Tail(audio_command)
    /\ is_recording' = TRUE
    /\ threads' = Spawned(Dropped(threads, recording_handle), t,
                          current_recording_id, current_sequence, "Resume")
    /\ recording_handle' = t
    /\ remote' = <<>>
    /\ UNCHANGED <<sessionVars, min_meeting_length, ctl, uploads, progress, files,
                   cleanups, handlers, next_id, now, ghostVars, requests, up, cap, pureVars>>

(* lines 98-101: Resume with no recording id does nothing. *)
CtlResumeNone ==
    /\ Receives("Resume")
    /\ current_recording_id = None
    /\ audio_command' = Tail(audio_command)
    /\ remote' = <<>>
    /\ UNCHANGED <<sessionVars, min_meeting_length, is_recording, recording_handle,
                   ctl, threads, uploads, progress, files,
                   cleanups, handlers, next_id, now, ghostVars, requests, up, cap, pureVars>>

(* recording_handle.take(): the controller now waits in join(). *)
Taken(pc) == [pc |-> pc, t |-> recording_handle, d |-> Head(audio_command).d]

(* lines 110-113: Pause is received; clear the flag, take the handle. *)
CtlPause ==
    /\ Receives("Pause")
    /\ audio_command' = Tail(audio_command)
    /\ is_recording' = FALSE
    /\ ctl' = Taken("join_pause")
    /\ recording_handle' = None
    /\ remote' = <<>>
    /\ UNCHANGED <<sessionVars, min_meeting_length, threads, uploads, progress, files,
                   cleanups, handlers, next_id, now, ghostVars, requests, up, cap, pureVars>>

(* lines 117-120: Stop is received; clear the flag, take the handle. *)
CtlStop ==
    /\ Receives("Stop")
    /\ audio_command' = Tail(audio_command)
    /\ is_recording' = FALSE
    /\ ctl' = Taken("join_stop")
    /\ recording_handle' = None
    /\ remote' = <<>>
    /\ UNCHANGED <<sessionVars, min_meeting_length, threads, uploads, progress, files,
                   cleanups, handlers, next_id, now, ghostVars, requests, up, cap, pureVars>>

Joined == IF ctl.t = None THEN TRUE ELSE threads[ctl.t].pc = "done"

AfterJoin(ths) == IF ctl.t = None THEN ths ELSE [ths EXCEPT ![ctl.t] = NoThread]

(* lines 113-116: handle.join() returns; Pause is handled. *)
CtlPauseJoined ==
    /\ ctl.pc = "join_pause"
    /\ Joined
    /\ threads' = AfterJoin(threads)
    /\ ctl' = CtlRecv
    /\ remote' = <<>>
    /\ UNCHANGED <<sessionVars, min_meeting_length, audio_command, is_recording,
                   recording_handle, uploads, progress, files, cleanups, handlers,
                   next_id, now, ghostVars, requests, up, cap, pureVars>>

(* lines 128-141: the duration the controller computes. *)
StopDuration ==
    IF recording_start_time # NoTime
    THEN accumulated_duration + Elapsed(recording_start_time)
    ELSE accumulated_duration

FreeCleanup(c) ==
    /\ cleanups[c].pc = "none"
    /\ \A b \in Cleanups : b < c => cleanups[b].pc # "none"

(* lines 120-147: join, read the session, spawn the cleanup thread. *)
CtlStopJoined(c) ==
    /\ ctl.pc = "join_stop"
    /\ Joined
    /\ current_recording_id # None
    /\ FreeCleanup(c)
    /\ threads' = AfterJoin(threads)
    /\ ctl' = CtlRecv
    /\ cleanups' = [cleanups EXCEPT ![c] =
            [pc |-> "run", rid |-> current_recording_id,
             duration |-> StopDuration, min |-> min_meeting_length, d |-> ctl.d]]
    /\ remote' = <<>>
    /\ UNCHANGED <<sessionVars, min_meeting_length, audio_command, is_recording,
                   recording_handle, uploads, progress, files, handlers,
                   next_id, now, ghostVars, requests, up, cap, pureVars>>

(* lines 120-125 and 199-203: with no recording id, just reset the status. *)
CtlStopNone ==
    /\ ctl.pc = "join_stop"
    /\ Joined
    /\ current_recording_id = None
    /\ threads' = AfterJoin(threads)
    /\ ctl' = CtlRecv
    /\ status' = "Idle"
    /\ remote' = <<>>
    /\ UNCHANGED <<current_recording_id, current_sequence, recording_start_time,
                   accumulated_duration, min_meeting_length, audio_command, is_recording,
                   recording_handle, uploads, progress, files, cleanups, handlers,
                   next_id, now, ghostVars, requests, up, cap, pureVars>>

(* line 154: the recording is shorter than the configured minimum. *)
TooShort(duration_secs, min_minutes) ==
    min_minutes > 0 /\ duration_secs < min_minutes * 60

Call(c, op, result) ==
    [op |-> op, rid |-> cleanups[c].rid, result |-> result,
     d |-> cleanups[c].d, min |-> cleanups[c].min]

(* delete_recording of the Tauri companion: one discard call, Ok or Err. *)
delete_recording(answer) == IF answer THEN "Ok" ELSE "Err"

(* lines 150-180: delete the short recording, with finalize as the fallback *)
(* when delete fails; finalize the others. The results are only logged.     *)
TerminalCalls(c, answer, resps) ==
    IF TooShort(cleanups[c].duration, cleanups[c].min)
    THEN IF delete_recording(answer) = "Ok"
         THEN <<Call(c, "delete", "Ok")>>
         ELSE <<Call(c, "delete", "Err"), Call(c, "finalize", finalize_recording(resps))>>
    ELSE <<Call(c, "finalize", finalize_recording(resps))>>

(* A cleanup thread that makes the terminal calls and resets the status,    *)
(* but leaves the recording id and the sequence of the session.             *)
CleanupKeepsSession(c, answer, resps) ==
    /\ cleanups[c].pc = "run"
    /\ remote' = TerminalCalls(c, answer, resps)
    /\ status' = "Idle"
    /\ accumulated_duration' = 0
    /\ recording_start_time' = NoTime
    /\ cleanups' = [cleanups EXCEPT ![c] = NoCleanup]
    /\ segment_secs' = [segment_secs EXCEPT ![cleanups[c].rid] = 0]
    /\ UNCHANGED <<current_recording_id, current_sequence, min_meeting_length,
                   audio_command, is_recording,
                   recording_handle, ctl, threads, uploads, progress, files,
                   handlers, next_id, now, last_submitted, active_secs, requests, up, cap, pureVars>>

(* lines 147-198: the cleanup thread: the terminal calls, then Cleanup State. *)
Cleanup(c, answer, resps) ==
    /\ cleanups[c].pc = "run"
    /\ remote' = TerminalCalls(c, answer, resps)
    /\ status' = "Idle"
    /\ current_recording_id' = None
    /\ current_sequence' = 1
    /\ accumulated_duration' = 0
    /\ recording_start_time' = NoTime
    /\ cleanups' = [cleanups EXCEPT ![c] = NoCleanup]
    /\ segment_secs' = [segment_secs EXCEPT ![cleanups[c].rid] = 0]
    /\ UNCHANGED <<min_meeting_length, audio_command, is_recording,
                   recording_handle, ctl, threads, uploads, progress, files,
                   handlers, next_id, now, last_submitted, active_secs, requests, up, cap, pureVars>>

(* ------------------------------ the clock ------------------------------- *)
Tick ==
    /\ now + TickSecs <= MaxNow
    /\ now' = now + TickSecs
    /\ active_secs' = IF recording_start_time # NoTime THEN active_secs + TickSecs
                      ELSE active_secs
    /\ remote' = <<>>
    /\ UNCHANGED <<sessionVars, min_meeting_length, audio_command, is_recording,
                   recording_handle, ctl, threads, uploads, progress, files, cleanups,
                   handlers, next_id, last_submitted, segment_secs, requests, up, cap, pureVars>>

(* --------------------------- the specification -------------------------- *)
(* ---- The state mutexes of AppState (state.rs) and the sections of code  *)
(* that lock them.                                                          *)
Mutexes == {"status", "id", "seq", "start", "acc", "config"}

(* `*m.lock().unwrap() = v` or `let v = *m.lock().unwrap()`: the guard is a *)
(* temporary, released at the end of the statement.                         *)
T(m) == [op |-> "touch", m |-> m, ms |-> {}]
(* `let g = m.lock().unwrap()`: the guard lives to the end of its block.    *)
L(m) == [op |-> "lock", m |-> m, ms |-> {}]
(* `if let Ok(g) = m.try_lock()`: on failure the body is skipped.           *)
Try(m) == [op |-> "try", m |-> m, ms |-> {}]
(* The end of a block: its guards are dropped.                              *)
D(ms) == [op |-> "drop", m |-> "", ms |-> ms]

(* server.rs, start_recording, lines 213-273. *)
StartSection ==
    <<T("status"), T("config"), T("config"), T("id"), T("seq"), T("start"),
      T("acc"), T("status")>>

(* server.rs, stop_recording, lines 321-343. *)
StopSection ==
    <<T("config"), T("id"), L("status"), L("start"), L("acc"),
      D({"acc", "start", "status"}), T("config")>>

(* pause_recording taking the start time before the status. *)
PauseSectionStartFirst ==
    <<T("id"), L("start"), L("status"), L("acc"), D({"acc"}),
      D({"start", "status"}), T("config")>>

(* server.rs, pause_recording, lines 359-377. *)
PauseSection ==
    <<T("id"), L("status"), L("start"), L("acc"), D({"acc"}),
      D({"start", "status"}), T("config")>>

(* server.rs, resume_recording, lines 395-409. *)
ResumeSection ==
    <<T("id"), L("status"), L("seq"), L("start"),
      D({"start", "seq", "status"}), T("config")>>

(* server.rs, get_status, lines 66-74. *)
StatusSection == <<T("status"), T("config"), T("acc"), T("start")>>

(* audio.rs, the Start arm, lines 95-97, calling start_segment, line 216. *)
CtlStartArm == <<T("config")>>

(* audio.rs, the Resume arm, lines 99-100, and start_segment, line 216. *)
CtlResumeArm == <<T("id"), T("seq"), T("config")>>

(* audio.rs, the Stop arm, lines 125-131, and line 201 with no id. *)
CtlStopArm == <<T("id"), T("config"), T("acc"), T("start"), T("status")>>

(* audio.rs, the cleanup thread, lines 184-196. *)
CleanupSection ==
    <<L("status"), L("id"), L("seq"), T("acc"), T("start"),
      D({"seq", "id", "status"})>>

(* audio.rs, the mixing thread: lines 553 and 568 at the end of a segment,  *)
(* 576-581 before the uploads are awaited, 469 when run() fails.            *)
MixingSection == <<T("config"), T("seq"), T("config"), T("status"), T("status")>>

(* main.rs, the health-check loop, lines 454-511; is_authenticated locks    *)
(* the config (state.rs 67) under the try_lock of the status.               *)
HealthSection ==
    <<T("config"), T("status"), Try("status"), T("config"), D({"status"})>>

SectionOf(name) ==
    CASE name = "start" -> StartSection
      [] name = "stop" -> StopSection
      [] name = "pause" -> PauseSection
      [] name = "resume" -> ResumeSection
      [] name = "get_status" -> StatusSection
      [] name = "ctl_start" -> CtlStartArm
      [] name = "ctl_resume" -> CtlResumeArm
      [] name = "ctl_stop" -> CtlStopArm
      [] name = "cleanup" -> CleanupSection
      [] name = "mixing" -> MixingSection
      [] name = "health" -> HealthSection

(* The threads and tasks that lock the state mutexes. *)
HandlerProcs == {<<"handler", h>> : h \in Concurrent}
LockProcs ==
    HandlerProcs \cup {<<"controller", 0>>, <<"cleanup", 0>>, <<"mixing", 0>>,
                       <<"health", 0>>}

SectionsOf(p) ==
    CASE p[1] = "handler" -> {"start", "stop", "pause", "resume", "get_status"}
      [] p[1] = "controller" -> {"ctl_start", "ctl_resume", "ctl_stop"}
      [] p[1] = "cleanup" -> {"cleanup"}
      [] p[1] = "mixing" -> {"mixing"}
      [] p[1] = "health" -> {"health"}

NoOwner == <<"none", 0>>
Outside == [sec |-> "none", pc |-> 0]

(* lk.owner maps the locked mutexes to their owners, lk.proc the threads    *)
(* inside a section to their position: at construction no mutex is locked   *)
(* and no section runs.                                                     *)
LkIdle == [owner |-> [m \in {} |-> NoOwner], proc |-> [p \in {} |-> Outside]]

Owner(m) == IF m \in DOMAIN lk.owner THEN lk.owner[m] ELSE NoOwner

(* The operation a thread is at, inside a section. *)
Inside(p) == p \in DOMAIN lk.proc
OpAt(p) == SectionOf(lk.proc[p].sec)[lk.proc[p].pc]

(* The threads' positions after p has run the operation it is at: out of    *)
(* the section after its last one.                                          *)
After(p) ==
    IF lk.proc[p].pc = Len(SectionOf(lk.proc[p].sec))
    THEN [q \in DOMAIN lk.proc \ {p} |-> lk.proc[q]]
    ELSE [lk.proc EXCEPT ![p].pc = @ + 1]

(* The owners after p has locked m. *)
Locked(m, p) == [x \in DOMAIN lk.owner \cup {m} |-> IF x = m THEN p ELSE lk.owner[x]]

(* The owners after p has dropped the guards of ms. *)
Unlocked(ms, p) ==
    [x \in {m \in DOMAIN lk.owner : ~(m \in ms /\ lk.owner[m] = p)} |-> lk.owner[x]]

lockFrame == <<status, current_recording_id, current_sequence, recording_start_time,
               accumulated_duration, min_meeting_length, audio_command, is_recording,
               recording_handle, ctl, threads, uploads, progress, files, cleanups,
               handlers, next_id, now, remote, ghostVars, requests, up, cap, mix,
               upd, seg>>

(* A thread enters one of its sections; the request slots of the server     *)
(* fill in order.                                                           *)
LockBegin(p, name) ==
    /\ ~Inside(p)
    /\ name \in SectionsOf(p)
    /\ p[1] = "handler" =>
          \A h \in Concurrent : h < p[2] => Inside(<<"handler", h>>)
    /\ lk' = [lk EXCEPT !.proc = [q \in DOMAIN lk.proc \cup {p} |->
                                     IF q = p THEN [sec |-> name, pc |-> 1]
                                     ELSE lk.proc[q]]]
    /\ UNCHANGED lockFrame

(* Mutex::lock of a temporary guard: blocks while the mutex is owned. *)
LockTouch(p) ==
    /\ Inside(p)
    /\ OpAt(p).op = "touch"
    /\ Owner(OpAt(p).m) = NoOwner
    /\ lk' = [lk EXCEPT !.proc = After(p)]
    /\ UNCHANGED lockFrame

(* Mutex::lock of a named guard: blocks while the mutex is owned, by this   *)
(* thread too.                                                              *)
LockAcquire(p) ==
    /\ Inside(p)
    /\ OpAt(p).op = "lock"
    /\ Owner(OpAt(p).m) = NoOwner
    /\ lk' = [owner |-> Locked(OpAt(p).m, p), proc |-> After(p)]
    /\ UNCHANGED lockFrame

(* Mutex::try_lock: never blocks; on failure the body is skipped. *)
LockTry(p) ==
    /\ Inside(p)
    /\ OpAt(p).op = "try"
    /\ IF Owner(OpAt(p).m) = NoOwner
       THEN lk' = [owner |-> Locked(OpAt(p).m, p), proc |-> After(p)]
       ELSE lk' = [lk EXCEPT !.proc = [q \in DOMAIN lk.proc \ {p} |-> lk.proc[q]]]
    /\ UNCHANGED lockFrame

(* The guards of a block are dropped at its end. *)
LockDrop(p) ==
    /\ Inside(p)
    /\ OpAt(p).op = "drop"
    /\ lk' = [owner |-> Unlocked(OpAt(p).ms, p), proc |-> After(p)]
    /\ UNCHANGED lockFrame

NextLock ==
    \/ \E p \in LockProcs : \E name \in SectionsOf(p) : LockBegin(p, name)
    \/ \E p \in LockProcs : LockTouch(p)
    \/ \E p \in LockProcs : LockAcquire(p)
    \/ \E p \in LockProcs : LockTry(p)
    \/ \E p \in LockProcs : LockDrop(p)

InitWith(slots) ==
    /\ status = "Idle"
    /\ current_recording_id = None
    /\ current_sequence = 1
    /\ recording_start_time = NoTime
    /\ accumulated_duration = 0
    /\ min_meeting_length \in MinMeetingLengths
    /\ audio_command = <<>>
    /\ is_recording = FALSE
    /\ recording_handle = None
    /\ ctl = CtlRecv
    /\ threads = [t \in Threads |-> NoThread]
    /\ uploads = {}
    /\ progress = [t \in Threads |-> <<>>]
    /\ files = {}
    /\ cleanups = [c \in Cleanups |-> NoCleanup]
    /\ handlers = [h \in slots |-> NoHandler]
    /\ next_id = 1
    /\ now = 0
    /\ remote = <<>>
    /\ last_submitted = [r \in Recordings |-> 0]
    /\ segment_secs = [r \in Recordings |-> 0]
    /\ active_secs = 0
    /\ requests = 0
    /\ up = UpIdle
    /\ cap = CapIdle
    /\ mix = MixIdle
    /\ upd = UpdIdle
    /\ seg = SegIdle
    /\ lk = LkIdle

Init == InitWith(Handlers)

Next ==
    \/ \E h \in Handlers : StartCheck(h)
    \/ \E h \in Handlers : StartReject(h)
    \/ \E h \in Handlers, ok \in BOOLEAN : StartInit(h, ok)
    \/ \E h \in Handlers : StartSend(h)
    \/ \E h \in Handlers : StartStatus(h)
    \/ pause_recording
    \/ resume_recording
    \/ stop_recording
    \/ \E ok \in BOOLEAN : HealthCheck(ok)
    \/ \E t \in Threads : CtlStart(t)
    \/ \E t \in Threads : CtlResume(t)
    \/ CtlResumeNone
    \/ CtlPause
    \/ CtlStop
    \/ CtlPauseJoined
    \/ \E c \in Cleanups : CtlStopJoined(c)
    \/ CtlStopNone
    \/ \E t \in Threads : ThreadFail(t)
    \/ \E t \in Threads : ThreadOpen(t)
    \/ \E t \in Threads : ThreadLeave(t)
    \/ \E t \in Threads : ThreadClose(t)
    \/ \E t \in Threads : ThreadExit(t)
    \/ \E u \in uploads, resps \in Responses : UploadTask(u, resps)
    \/ \E c \in Cleanups, answer \in BOOLEAN, resps \in Responses : Cleanup(c, answer, resps)

Spec == Init /\ [][Next]_vars

(* The processes of the program, each scheduled by the operating system or *)
(* by a runtime: the controller thread of AudioCommand (audio.rs 66-207),   *)
(* a mixing thread, the upload tasks of the tokio runtime, a cleanup thread *)
(* and the continuation of a start handler after its awaits.                *)
ControllerStep ==
    \/ \E t \in Threads : CtlStart(t)
    \/ \E t \in Threads : CtlResume(t)
    \/ CtlResumeNone
    \/ CtlPause
    \/ CtlStop
    \/ CtlPauseJoined
    \/ \E c \in Cleanups : CtlStopJoined(c)
    \/ CtlStopNone

ThreadStep(t) ==
    \/ ThreadFail(t)
    \/ ThreadOpen(t)
    \/ ThreadLeave(t)
    \/ ThreadClose(t)
    \/ ThreadExit(t)

UploadStep == \E u \in uploads, resps \in Responses : UploadTask(u, resps)

CleanupStep(c) == \E answer \in BOOLEAN, resps \in Responses : Cleanup(c, answer, resps)

HandlerStep(h) ==
    \/ \E ok \in BOOLEAN : StartInit(h, ok)
    \/ StartSend(h)
    \/ StartStatus(h)

(* Every HTTP call returns and every thread that can run does run. *)
Fairness ==
    /\ WF_vars(ControllerStep)
    /\ \A t \in Threads : WF_vars(ThreadStep(t))
    /\ WF_vars(UploadStep)
    /\ \A c \in Cleanups : WF_vars(CleanupStep(c))
    /\ \A h \in Handlers : WF_vars(HandlerStep(h))

(* The same program with fewer requests, so that a Stop request and the    *)
(* requests around it never ask for more threads than Threads holds and the *)
(* controller is never held back by a bound.                                *)
Admitted == requests < LiveRequests

NextLive ==
    \/ \E h \in Handlers : Admitted /\ StartCheck(h)
    \/ \E h \in Handlers : Admitted /\ StartReject(h)
    \/ \E h \in Handlers, ok \in BOOLEAN : StartInit(h, ok)
    \/ \E h \in Handlers : StartSend(h)
    \/ \E h \in Handlers : StartStatus(h)
    \/ Admitted /\ pause_recording
    \/ Admitted /\ resume_recording
    \/ Admitted /\ stop_recording
    \/ \E ok \in BOOLEAN : HealthCheck(ok)
    \/ \E t \in Threads : CtlStart(t)
    \/ \E t \in Threads : CtlResume(t)
    \/ CtlResumeNone
    \/ CtlPause
    \/ CtlStop
    \/ CtlPauseJoined
    \/ \E c \in Cleanups : CtlStopJoined(c)
    \/ CtlStopNone
    \/ \E t \in Threads : ThreadFail(t)
    \/ \E t \in Threads : ThreadOpen(t)
    \/ \E t \in Threads : ThreadLeave(t)
    \/ \E t \in Threads : ThreadClose(t)
    \/ \E t \in Threads : ThreadExit(t)
    \/ \E u \in uploads, resps \in Responses : UploadTask(u, resps)
    \/ \E c \in Cleanups, answer \in BOOLEAN, resps \in Responses : Cleanup(c, answer, resps)

SpecLive == Init /\ [][NextLive]_vars /\ Fairness

(* The same program with the answer of every health check recorded. *)
NextHealth ==
    \/ \E ok \in BOOLEAN : HealthProbe(ok)
    \/ NextLive

SpecHealth == Init /\ [][NextHealth]_vars

(* The same program with the clock running and one capture thread at most. *)
NextTimed ==
    \/ \E h \in Handlers : StartCheck(h)
    \/ \E h \in Handlers : StartReject(h)
    \/ \E h \in Handlers, ok \in BOOLEAN : StartInit(h, ok)
    \/ \E h \in Handlers : StartSend(h)
    \/ \E h \in Handlers : StartStatus(h)
    \/ pause_recording
    \/ resume_recording
    \/ stop_recording
    \/ \E ok \in BOOLEAN : HealthCheck(ok)
    \/ \E t \in TimedThreads : CtlStart(t)
    \/ \E t \in TimedThreads : CtlResume(t)
    \/ CtlResumeNone
    \/ CtlPause
    \/ CtlStop
    \/ CtlPauseJoined
    \/ \E c \in Cleanups : CtlStopJoined(c)
    \/ CtlStopNone
    \/ \E t \in TimedThreads : ThreadFail(t)
    \/ \E t \in TimedThreads : ThreadOpen(t)
    \/ \E t \in TimedThreads : ThreadLeave(t)
    \/ \E t \in TimedThreads : ThreadClose(t)
    \/ \E t \in TimedThreads : ThreadExit(t)
    \/ \E u \in uploads, resps \in Responses : UploadTask(u, resps)
    \/ \E c \in Cleanups, answer \in BOOLEAN, resps \in Responses : Cleanup(c, answer, resps)
    \/ Tick

SpecTimed == Init /\ [][NextTimed]_vars

(* -------- the first companion (src/companion/src): one segment ---------- *)
tauriVars == <<sessionVars, min_meeting_length, audio_command, recording_handle, ctl,
               threads, uploads, progress, cleanups, handlers, next_id, now, remote,
               ghostVars, requests, cap, pureVars>>

(* audio.rs, lines 143-174: start_segment sets the flag and spawns the      *)
(* thread, which creates temp_{recording_id}_{sequence}.wav.                *)
SegmentStart(rid, seq) ==
    /\ up.pc = "idle"
    /\ is_recording' = TRUE
    /\ up' = [UpIdle EXCEPT !.pc = "rec", !.rid = rid, !.seq = seq]
    /\ files' = files \cup {<<rid, seq>>}
    /\ UNCHANGED tauriVars

(* audio.rs, lines 85 and 92: Pause or Stop clears the flag. *)
SegmentStop ==
    /\ up.pc = "rec"
    /\ is_recording
    /\ is_recording' = FALSE
    /\ UNCHANGED <<tauriVars, files, up, cap, pureVars>>

(* audio.rs, lines 249 and 285-294: the mixing loop ends, the WAV is        *)
(* finalized, upload_segment is called.                                     *)
SegmentFinish ==
    /\ up.pc = "rec"
    /\ ~is_recording
    /\ up' = [up EXCEPT !.pc = "open"]
    /\ UNCHANGED <<tauriVars, is_recording, files>>

(* uploader.rs, lines 11-19: the file is read; attempts = 0. *)
UploadOpen ==
    /\ up.pc = "open"
    /\ up' = IF <<up.rid, up.seq>> \in files
             THEN [up EXCEPT !.pc = "attempt", !.attempts = 0, !.waits = <<>>]
             ELSE [up EXCEPT !.pc = "returned", !.result = "Err"]
    /\ UNCHANGED <<tauriVars, is_recording, files>>

(* Where upload_segment stands after a pass of its loop. *)
AfterAttempt(u) == [u EXCEPT !.pc = IF u.result = "none" THEN "sleep" ELSE "returned"]

(* uploader.rs, lines 21-52: one pass of the loop, up to the return or to   *)
(* the start of the sleep.                                                  *)
UploadRequest(ok) ==
    /\ up.pc = "attempt"
    /\ up' = AfterAttempt(UploadAttempt(up, ok))
    /\ UNCHANGED <<tauriVars, is_recording, files>>

(* uploader.rs, line 53: the sleep is over. *)
UploadSleep ==
    /\ up.pc = "sleep"
    /\ up' = [up EXCEPT !.pc = "attempt"]
    /\ UNCHANGED <<tauriVars, is_recording, files>>

(* A thread that removes the segment file whatever upload_segment returned. *)
RemoveAlways(fs, path, result) == fs \ {path}

(* audio.rs, lines 294-303: the file is removed only in the Ok arm. *)
RemoveUploaded(fs, path, result) == IF result = "Ok" THEN fs \ {path} ELSE fs

(* audio.rs, lines 294-305: upload_segment has returned; the thread ends. *)
SegmentEnd ==
    /\ up.pc = "returned"
    /\ files' = RemoveUploaded(files, <<up.rid, up.seq>>, up.result)
    /\ up' = [up EXCEPT !.pc = "done"]
    /\ UNCHANGED <<tauriVars, is_recording>>

(* audio.rs, lines 86-88 and 93-95: the controller joins the thread. *)
SegmentJoin ==
    /\ up.pc = "done"
    /\ up' = UpIdle
    /\ UNCHANGED <<tauriVars, is_recording, files>>

NextUpload ==
    \/ \E rid \in Recordings, seq \in 1..MaxSeq : SegmentStart(rid, seq)
    \/ SegmentStop
    \/ SegmentFinish
    \/ UploadOpen
    \/ \E ok \in BOOLEAN : UploadRequest(ok)
    \/ UploadSleep
    \/ SegmentEnd
    \/ SegmentJoin

SpecUpload == Init /\ [][NextUpload]_vars

(* ------- start_segment: devices, streams and the silence generator ------ *)
captureLocal == <<current_recording_id, current_sequence, recording_start_time,
                  accumulated_duration, min_meeting_length, audio_command,
                  recording_handle, ctl, threads, uploads, progress, files, cleanups,
                  handlers, next_id, now, ghostVars, requests, up, pureVars>>

(* The RMS levels a callback can compute, in hundredths. *)
RmsLevels == {0, 30, 70, 120}

(* What find_input_device and the input configuration can give, what       *)
(* find_output_device and the loopback stream can give, and the sample     *)
(* rates of a real microphone.                                              *)
InputDevices == {"none", "config_err", "build_err", "play_err", "ok"}
OutputDevices == {"none", "build_err", "ok"}
NativeRates == {44100, 48000}

(* A microphone setup that treats a missing input device as an error. *)
MicSetupNoFallback(input, native) ==
    IF input \in {"none", "config_err", "build_err"}
    THEN [result |-> "Err", stream |-> FALSE, rate |-> 0]
    ELSE [result |-> "Ok", stream |-> TRUE, rate |-> native]

(* lines 245-316: (mic_stream, mic_sample_rate): the real device's stream   *)
(* and rate, or (None, 48000) when no device is found or its configuration  *)
(* fails; a failing build_input_stream is an error.                         *)
MicSetup(input, native) ==
    IF input \in {"none", "config_err"}
    THEN [result |-> "Ok", stream |-> FALSE, rate |-> FALLBACK_SAMPLE_RATE]
    ELSE IF input = "build_err"
         THEN [result |-> "Err", stream |-> FALSE, rate |-> 0]
         ELSE [result |-> "Ok", stream |-> TRUE, rate |-> native]

(* lines 325-326: samples_per_chunk of the generator. *)
SamplesPerChunk(sample_rate) == (sample_rate * CHUNK_DURATION_MS) \div 1000

(* line 330: vec![0.0; samples_per_chunk]. *)
Zeros(sample_rate) == [kind |-> "zeros", n |-> SamplesPerChunk(sample_rate)]

(* server.rs 267-274 and audio.rs 209-218: Start is accepted, the flag is   *)
(* set, the thread is spawned, the handler writes Recording.                *)
CaptureStart(input, output, native) ==
    /\ cap.pc = "idle"
    /\ is_recording' = TRUE
    /\ status' = "Recording"
    /\ cap' = [CapIdle EXCEPT !.pc = "mic", !.input = input, !.output = output,
                              !.native = native, !.interval = 1]
    /\ remote' = <<>>
    /\ UNCHANGED captureLocal

(* The generators alive once the thread of this interval has returned: the  *)
(* generator is detached and nothing joins it.                              *)
Detached(c) == c.orphans + (IF c.generator THEN 1 ELSE 0)

(* server.rs 390-405 and audio.rs 98-109, 209-218: Resume is handled once   *)
(* the thread of the interval before has returned (joined by Pause, or      *)
(* failed): the flag is set and a new thread is spawned.                    *)
CaptureResume(input, output, native) ==
    /\ cap.pc = "done"
    /\ cap.interval < MaxIntervals
    /\ is_recording' = TRUE
    /\ status' = "Recording"
    /\ cap' = [CapIdle EXCEPT !.pc = "mic", !.input = input, !.output = output,
                              !.native = native, !.interval = cap.interval + 1,
                              !.orphans = Detached(cap)]
    /\ remote' = <<>>
    /\ UNCHANGED captureLocal

(* lines 466-471: run() returned Err. *)
CaptureFailed == [cap EXCEPT !.pc = "done"]

(* lines 245-316: the microphone. *)
CaptureMic ==
    /\ cap.pc = "mic"
    /\ LET m == MicSetup(cap.input, cap.native) IN
         IF m.result = "Err"
         THEN cap' = CaptureFailed /\ status' = "Error"
         ELSE /\ cap' = [cap EXCEPT !.pc = "generator", !.mic_stream = m.stream,
                                    !.rate = m.rate]
              /\ UNCHANGED status
    /\ remote' = <<>>
    /\ UNCHANGED <<captureLocal, is_recording>>

(* lines 318-339: with no mic stream the silence generator is spawned. *)
CaptureGenerator ==
    /\ cap.pc = "generator"
    /\ cap' = [cap EXCEPT !.pc = "sys", !.generator = ~cap.mic_stream]
    /\ remote' = <<>>
    /\ UNCHANGED <<captureLocal, is_recording, status>>

(* lines 341-461: the loopback stream is built and played, the mic stream   *)
(* is played; any failure is an error.                                      *)
CaptureSys ==
    /\ cap.pc = "sys"
    /\ IF cap.output # "ok" \/ (cap.mic_stream /\ cap.input = "play_err")
       THEN cap' = CaptureFailed /\ status' = "Error"
       ELSE cap' = [cap EXCEPT !.pc = "loop"] /\ UNCHANGED status
    /\ remote' = <<>>
    /\ UNCHANGED <<captureLocal, is_recording>>

(* lines 328-337: the generator sends a chunk of zeros every 100 ms while   *)
(* the flag is set.                                                         *)
GeneratorSend ==
    /\ cap.generator
    /\ is_recording
    /\ cap.sent < MaxChunks
    /\ cap' = [cap EXCEPT !.mic_rx = Append(@, Zeros(cap.rate)), !.sent = @ + 1]
    /\ remote' = <<>>
    /\ UNCHANGED <<captureLocal, is_recording, status>>

(* line 328: the flag is clear: the generator ends. *)
GeneratorExit ==
    /\ cap.generator
    /\ ~is_recording
    /\ cap' = [cap EXCEPT !.generator = FALSE]
    /\ remote' = <<>>
    /\ UNCHANGED <<captureLocal, is_recording, status>>

(* line 328: a generator of an earlier interval sees the flag clear and    *)
(* ends.                                                                    *)
OrphanExit ==
    /\ cap.orphans > 0
    /\ ~is_recording
    /\ cap' = [cap EXCEPT !.orphans = @ - 1]
    /\ remote' = <<>>
    /\ UNCHANGED <<captureLocal, is_recording, status>>

(* state.rs, lines 46-55: the level, in hundredths, is clamped to 0.0-1.0   *)
(* and scaled to 0-100.                                                     *)
Scaled(level) == IF level < 0 THEN 0 ELSE IF level > 100 THEN 100 ELSE level

Higher(a, b) == IF a >= b THEN a ELSE b

(* A meter that stores the last level, as set_input_level of                *)
(* src/companion/src/state.rs does.                                         *)
set_input_level(c, level) ==
    [c EXCEPT !.input_level = Scaled(level), !.in_seen = @ \cup {Scaled(level)}]

(* state.rs, lines 46-50: input_level.fetch_max(scaled). in_seen keeps the  *)
(* levels recorded since the last take.                                     *)
record_input_level(c, level) ==
    [c EXCEPT !.input_level = Higher(@, Scaled(level)),
              !.in_seen = @ \cup {Scaled(level)}]

(* state.rs, lines 52-55: output_level.fetch_max(scaled). *)
record_output_level(c, level) ==
    [c EXCEPT !.output_level = Higher(@, Scaled(level)),
              !.out_seen = @ \cup {Scaled(level)}]

(* state.rs, lines 57-59: input_level.swap(0). *)
take_input_level(c) ==
    [value |-> c.input_level, cap |-> [c EXCEPT !.input_level = 0, !.in_seen = {}]]

(* state.rs, lines 61-63: output_level.swap(0). *)
take_output_level(c) ==
    [value |-> c.output_level, cap |-> [c EXCEPT !.output_level = 0, !.out_seen = {}]]

(* The callbacks run from the play of their stream to the return of run(). *)
StreamsPlaying == cap.pc \in {"loop", "rec"}

(* lines 287-297: the real microphone's callback records the level and     *)
(* sends the chunk.                                                         *)
MicCallback(level) ==
    /\ cap.mic_stream
    /\ StreamsPlaying
    /\ cap.sent < MaxChunks
    /\ cap' = [record_input_level(cap, level) EXCEPT
                   !.mic_rx = Append(@, [kind |-> "mic", n |-> SamplesPerChunk(cap.rate)]),
                   !.sent = @ + 1]
    /\ remote' = <<>>
    /\ UNCHANGED <<captureLocal, is_recording, status>>

(* lines 412-421: the loopback callback records the level and sends the     *)
(* chunk if the flag is set.                                                *)
SysCallback(level) ==
    /\ StreamsPlaying
    /\ cap.sys_calls < MaxChunks
    /\ cap' = [record_output_level(cap, level) EXCEPT
                   !.sys_rx = IF is_recording THEN Append(@, [kind |-> "sys"]) ELSE @,
                   !.sys_calls = @ + 1]
    /\ remote' = <<>>
    /\ UNCHANGED <<captureLocal, is_recording, status>>

(* server.rs, lines 178-189: get_audio_levels takes both meters. *)
TakeInput ==
    /\ cap.pc # "idle"
    /\ cap' = take_input_level(cap).cap
    /\ remote' = <<[op |-> "input_level", value |-> take_input_level(cap).value]>>
    /\ UNCHANGED <<captureLocal, is_recording, status>>

TakeOutput ==
    /\ cap.pc # "idle"
    /\ cap' = take_output_level(cap).cap
    /\ remote' = <<[op |-> "output_level", value |-> take_output_level(cap).value]>>
    /\ UNCHANGED <<captureLocal, is_recording, status>>

(* lines 357-363 and 492-499: the WAV is created at the mic sample rate. *)
CaptureOpen ==
    /\ cap.pc = "loop"
    /\ is_recording
    /\ cap' = [cap EXCEPT !.pc = "rec",
                          !.wav = [exists |-> TRUE, open |-> TRUE, rate |-> cap.rate,
                                   samples |-> 0]]
    /\ remote' = <<>>
    /\ UNCHANGED <<captureLocal, is_recording, status>>

(* lines 513-543: a mic chunk arrives: one sample is written per mic sample. *)
CaptureMix ==
    /\ cap.pc = "rec"
    /\ is_recording
    /\ cap.mic_rx # <<>>
    /\ cap' = [cap EXCEPT !.mic_rx = Tail(@), !.sys_rx = <<>>,
                          !.wav.samples = @ + Head(cap.mic_rx).n]
    /\ remote' = <<>>
    /\ UNCHANGED <<captureLocal, is_recording, status>>

(* lines 110-111 and 117-118: Pause or Stop clears the flag. *)
CaptureStop ==
    /\ cap.pc # "idle"
    /\ is_recording
    /\ is_recording' = FALSE
    /\ remote' = <<>>
    /\ UNCHANGED <<captureLocal, status, cap>>

(* lines 492, 502 and 546: the flag is clear: the WAV is finalized and the  *)
(* loop is left.                                                            *)
CaptureClose ==
    /\ cap.pc \in {"loop", "rec"}
    /\ ~is_recording
    /\ cap' = [cap EXCEPT !.pc = "done", !.wav.open = FALSE]
    /\ remote' = <<>>
    /\ UNCHANGED <<captureLocal, is_recording, status>>

NextCapture ==
    \/ \E input \in InputDevices, output \in OutputDevices, native \in NativeRates :
            CaptureStart(input, output, native)
    \/ CaptureMic
    \/ CaptureGenerator
    \/ CaptureSys
    \/ GeneratorSend
    \/ GeneratorExit
    \/ \E input \in InputDevices, output \in OutputDevices, native \in NativeRates :
            CaptureResume(input, output, native)
    \/ OrphanExit
    \/ \E level \in RmsLevels : MicCallback(level)
    \/ \E level \in RmsLevels : SysCallback(level)
    \/ TakeInput
    \/ TakeOutput
    \/ CaptureOpen
    \/ CaptureMix
    \/ CaptureStop
    \/ CaptureClose

SpecCapture == Init /\ [][NextCapture]_vars

(* ------------- audio.rs: the samples of the mixing loop ----------------- *)
programVars == <<status, current_recording_id, current_sequence, recording_start_time,
                 accumulated_duration, min_meeting_length, audio_command, is_recording,
                 recording_handle, ctl, threads, uploads, progress, files, cleanups,
                 handlers, next_id, now, remote, ghostVars, requests, up, cap>>

(* f32 samples in thousandths (1000 is 1.0), with the two infinities and    *)
(* NaN of the type.                                                         *)
PosInf == 1000000
NegInf == -1000000
NaN == 9999999
I16_MAX == 32767
I16_MIN == -32768

Samples == {NegInf, -1000, 300, 1500, NaN}
SysSamples == {-1000, 1000}

(* Chunks of one to n samples. *)
ChunksOf(S, n) == UNION {[1..k -> S] : k \in 1..n}

(* f32 addition. *)
FAdd(a, b) ==
    IF a = NaN \/ b = NaN THEN NaN
    ELSE IF a \in {PosInf, NegInf}
         THEN IF b \in {PosInf, NegInf} /\ b # a THEN NaN ELSE a
         ELSE IF b \in {PosInf, NegInf} THEN b ELSE a + b

(* A mix that does not clip. *)
NoClip(mixed) == mixed

(* audio.rs, lines 532-537: the hard clip; both comparisons are false for  *)
(* NaN.                                                                     *)
HardClip(mixed) ==
    IF mixed = NaN THEN NaN
    ELSE IF mixed > 1000 THEN 1000
    ELSE IF mixed < -1000 THEN -1000
    ELSE mixed

(* line 540: mixed * i16::MAX as f32, truncated toward zero. *)
TimesMax(mixed) ==
    IF mixed \in {NaN, PosInf, NegInf} THEN mixed
    ELSE IF mixed >= 0 THEN (mixed * I16_MAX) \div 1000
    ELSE -((-mixed * I16_MAX) \div 1000)

(* line 540: `as i16`: NaN gives 0, values out of range saturate. *)
AsI16(x) ==
    IF x = NaN THEN 0
    ELSE IF x > I16_MAX THEN I16_MAX
    ELSE IF x < I16_MIN THEN I16_MIN
    ELSE x

(* A mix that adds the head of the system buffer and leaves it there. *)
MixSampleKeepsHead(mic_sample, sys_buffer) ==
    LET mixed == IF sys_buffer # <<>> THEN FAdd(mic_sample, Head(sys_buffer))
                 ELSE mic_sample
        scaled == TimesMax(HardClip(mixed))
    IN [scaled |-> scaled, pcm |-> AsI16(scaled), sys_buffer |-> sys_buffer]

(* lines 522-541: one mic sample: add the head of the system buffer if     *)
(* there is one, clip, scale, write.                                        *)
MixSample(mic_sample, sys_buffer) ==
    LET mixed == IF sys_buffer # <<>> THEN FAdd(mic_sample, Head(sys_buffer))
                 ELSE mic_sample
        scaled == TimesMax(HardClip(mixed))
    IN [scaled |-> scaled, pcm |-> AsI16(scaled),
        sys_buffer |-> IF sys_buffer # <<>> THEN Tail(sys_buffer) ELSE <<>>]

(* lines 521-542: the loop over the mic chunk. *)
RECURSIVE MixChunk(_, _, _)
MixChunk(mic_data, sys_buffer, written) ==
    IF mic_data = <<>> THEN [written |-> written, sys_buffer |-> sys_buffer]
    ELSE LET m == MixSample(Head(mic_data), sys_buffer) IN
         MixChunk(Tail(mic_data), m.sys_buffer,
                  Append(written, [scaled |-> m.scaled, pcm |-> m.pcm]))

(* src/audio.rs, line 267: f32::clamp(-1.0, 1.0); NaN stays NaN. *)
Clamp(mixed) ==
    IF mixed = NaN THEN NaN
    ELSE IF mixed < -1000 THEN -1000
    ELSE IF mixed > 1000 THEN 1000
    ELSE mixed

(* src/audio.rs, lines 258-271: the sample written for index i of the mic   *)
(* chunk (the first index is 1 here, 0 in the code).                        *)
LegacyMixSample(mic_data, sys_buffer, i) ==
    LET mixed == IF i <= Len(sys_buffer) THEN FAdd(mic_data[i], sys_buffer[i])
                 ELSE mic_data[i]
        scaled == TimesMax(Clamp(mixed))
    IN [scaled |-> scaled, pcm |-> AsI16(scaled)]

(* A removal of the used samples that empties the buffer every time. *)
LegacyDrainClears(mic_data, sys_buffer) == <<>>

(* src/audio.rs, lines 273-278: drain the used samples, or clear. *)
LegacyDrain(mic_data, sys_buffer) ==
    IF Len(sys_buffer) >= Len(mic_data)
    THEN SubSeq(sys_buffer, Len(mic_data) + 1, Len(sys_buffer))
    ELSE <<>>

(* src/audio.rs, lines 257-278: one mic chunk of the legacy companion. *)
LegacyMixChunk(mic_data, sys_buffer) ==
    [written |-> [i \in 1..Len(mic_data) |-> LegacyMixSample(mic_data, sys_buffer, i)],
     sys_buffer |-> LegacyDrain(mic_data, sys_buffer)]

(* lines 516-518: every chunk waiting on sys_rx is appended to sys_buffer. *)
RECURSIVE Collected(_, _)
Collected(sys_buffer, sys_rx) ==
    IF sys_rx = <<>> THEN sys_buffer
    ELSE Collected(sys_buffer \o Head(sys_rx), Tail(sys_rx))

(* lines 487-499: the loop is entered, the first segment is opened. *)
MixOpen ==
    /\ mix.pc = "idle"
    /\ mix' = [MixIdle EXCEPT !.pc = "rec", !.seq = 1]
    /\ UNCHANGED <<programVars, upd, seg, lk>>

(* lines 412-421: the loopback callback sends a chunk. *)
MixSysArrives(sys_chunk) ==
    /\ mix.pc = "rec"
    /\ Len(mix.sys_rx) < MaxSysChunks
    /\ Len(mix.sys_buffer) < MaxMicLen
    /\ mix' = [mix EXCEPT !.sys_rx = Append(@, sys_chunk)]
    /\ UNCHANGED <<programVars, upd, seg, lk>>

(* lines 513-543: a mic chunk is received, the system chunks are collected *)
(* and the chunk is mixed into the segment; the legacy loop (src/audio.rs   *)
(* 247-279) is given the same chunks.                                       *)
MixMicArrives(mic_data) ==
    /\ mix.pc = "rec"
    /\ mix.chunks < MaxMixChunks
    /\ LET had == Collected(mix.sys_buffer, mix.sys_rx)
           m == MixChunk(mic_data, had, <<>>)
           legacy == LegacyMixChunk(mic_data, Collected(mix.legacy_buffer, mix.sys_rx))
       IN mix' = [mix EXCEPT !.sys_rx = <<>>, !.collected = had, !.mic_data = mic_data,
                             !.written = m.written, !.sys_buffer = m.sys_buffer,
                             !.chunks = @ + 1,
                             !.legacy_written = legacy.written,
                             !.legacy_buffer = legacy.sys_buffer]
    /\ UNCHANGED <<programVars, upd, seg, lk>>

(* lines 504-510 and 546-568: the segment reached its duration; it is      *)
(* closed and the next one opened; sys_buffer, declared outside the loop,   *)
(* is kept.                                                                 *)
MixRotate ==
    /\ mix.pc = "rec"
    /\ mix.seq < MaxSeq
    /\ mix.chunks > 0
    /\ mix' = [mix EXCEPT !.seq = @ + 1, !.mic_data = <<>>, !.collected = <<>>,
                          !.written = <<>>, !.legacy_written = <<>>]
    /\ UNCHANGED <<programVars, upd, seg, lk>>

NextMix ==
    \/ MixOpen
    \/ \E sys_chunk \in ChunksOf(SysSamples, MaxSysLen) : MixSysArrives(sys_chunk)
    \/ \E mic_data \in ChunksOf(Samples, MaxMicLen) : MixMicArrives(mic_data)
    \/ MixRotate

SpecMix == Init /\ [][NextMix]_vars

(* ------------ audio.rs: the clock of the segmentation loop -------------- *)
segFrame == <<status, current_recording_id, current_sequence, recording_start_time,
              accumulated_duration, min_meeting_length, audio_command,
              recording_handle, ctl, threads, uploads, progress, files, cleanups,
              handlers, next_id, now, remote, ghostVars, requests, up, cap, mix, upd, lk>>

MaxSegmentMs == MAX_SEGMENT_DURATION_SECS * 1000

(* line 504: segment_start.elapsed().as_secs() >= max_duration. *)
CeilingReached(elapsed_ms) == elapsed_ms \div 1000 >= MAX_SEGMENT_DURATION_SECS

(* audio.rs 209-218 and 492-499: the flag is set, the thread runs, the      *)
(* first segment is opened.                                                 *)
SegStart ==
    /\ seg.pc = "idle"
    /\ is_recording' = TRUE
    /\ seg' = [SegIdle EXCEPT !.pc = "head", !.seq = 1]
    /\ UNCHANGED segFrame

(* lines 110-111 and 117-118: Pause or Stop clears the flag. *)
SegStop ==
    /\ seg.pc \notin {"idle", "done"}
    /\ is_recording
    /\ is_recording' = FALSE
    /\ UNCHANGED <<segFrame, seg>>

(* lines 502-543 in the steady state: the microphone delivers in real time  *)
(* and every chunk is written as it comes, for SteadyMs of recording.       *)
SegSteady ==
    /\ seg.pc = "head"
    /\ is_recording
    /\ seg.queued = 0
    /\ seg.elapsed_ms = 0
    /\ seg' = [seg EXCEPT !.elapsed_ms = @ + SteadyMs, !.recorded_ms = @ + SteadyMs]
    /\ UNCHANGED <<segFrame, is_recording>>

(* After the steady state one chunk interval passes; the microphone         *)
(* delivers a chunk or not. A receive that has waited its 500 ms returns    *)
(* before more time passes.                                                 *)
SegTime(delivered) ==
    /\ seg.pc \notin {"idle", "done"}
    /\ seg.elapsed_ms >= SteadyMs
    /\ seg.elapsed_ms < MaxSegmentMs + MaxOverrunMs
    /\ ~(seg.pc = "recv" /\ seg.waited_ms >= RECV_TIMEOUT_MS)
    /\ delivered => seg.queued < MaxQueued
    /\ seg' = [seg EXCEPT !.elapsed_ms = @ + CHUNK_DURATION_MS,
                          !.waited_ms = IF seg.pc = "recv" /\ seg.queued = 0
                                        THEN @ + CHUNK_DURATION_MS ELSE @,
                          !.queued = IF delivered THEN @ + 1 ELSE @]
    /\ UNCHANGED <<segFrame, is_recording>>

(* lines 502-510: the head of the inner loop: the flag, then the ceiling;   *)
(* then the receive is entered.                                             *)
SegCheck ==
    /\ seg.pc = "head"
    /\ seg' = IF ~is_recording \/ CeilingReached(seg.elapsed_ms)
              THEN [seg EXCEPT !.pc = "finalize"]
              ELSE [seg EXCEPT !.pc = "recv", !.waited_ms = 0]
    /\ UNCHANGED <<segFrame, is_recording>>

(* lines 513-543: a chunk is received and written to the segment. *)
SegRecv ==
    /\ seg.pc = "recv"
    /\ seg.queued > 0
    /\ seg' = [seg EXCEPT !.pc = "head", !.queued = @ - 1,
                          !.recorded_ms = @ + CHUNK_DURATION_MS,
                          !.late = IF CeilingReached(seg.elapsed_ms) THEN @ + 1 ELSE @]
    /\ UNCHANGED <<segFrame, is_recording>>

(* line 513: recv_timeout returns Err after 500 ms. *)
SegRecvTimeout ==
    /\ seg.pc = "recv"
    /\ seg.queued = 0
    /\ seg.waited_ms >= RECV_TIMEOUT_MS
    /\ seg' = [seg EXCEPT !.pc = "head"]
    /\ UNCHANGED <<segFrame, is_recording>>

(* lines 546-568: finalize, submit, current_sequence += 1. *)
SegClose ==
    /\ seg.pc = "finalize"
    /\ seg' = [seg EXCEPT !.pc = "outer", !.seq = @ + 1,
                          !.durations = Append(@, seg.recorded_ms)]
    /\ UNCHANGED <<segFrame, is_recording>>

(* lines 492-499: the flag is set: the next segment is opened. *)
SegOpen ==
    /\ seg.pc = "outer"
    /\ is_recording
    /\ seg.seq <= MaxSegments
    /\ seg' = [seg EXCEPT !.pc = "head", !.elapsed_ms = 0, !.recorded_ms = 0, !.late = 0]
    /\ UNCHANGED <<segFrame, is_recording>>

(* lines 492 and 571: the flag is clear: the loop is left. *)
SegLeave ==
    /\ seg.pc = "outer"
    /\ ~is_recording
    /\ seg' = [seg EXCEPT !.pc = "done"]
    /\ UNCHANGED <<segFrame, is_recording>>

NextSegment ==
    \/ SegStart
    \/ SegStop
    \/ SegSteady
    \/ \E delivered \in BOOLEAN : SegTime(delivered)
    \/ SegCheck
    \/ SegRecv
    \/ SegRecvTimeout
    \/ SegClose
    \/ SegOpen
    \/ SegLeave

SpecSegment == Init /\ [][NextSegment]_vars

(* --------------- updater.rs of the first companion: versions ------------ *)
(* A version string is a sequence of characters. *)
DigitChars == <<"0", "1", "2", "3", "4", "5", "6", "7", "8", "9">>

IsDigit(ch) == \E d \in DOMAIN DigitChars : DigitChars[d] = ch

DigitOf(ch) == (CHOOSE d \in DOMAIN DigitChars : DigitChars[d] = ch) - 1

ParseErr == [ok |-> FALSE, value |-> 0]

ParseOk(value) == [ok |-> TRUE, value |-> value]

(* str::parse::<u32>: the decimal value of a non-empty run of digits, an    *)
(* error for anything else. The parts checked have at most two digits, far  *)
(* from the 32 bits at which the parse fails as well.                       *)
RECURSIVE ParseDigits(_, _)
ParseDigits(part, acc) ==
    IF part = <<>> THEN ParseOk(acc)
    ELSE IF ~IsDigit(Head(part)) THEN ParseErr
    ELSE ParseDigits(Tail(part), acc * 10 + DigitOf(Head(part)))

parse_u32(part) == IF part = <<>> THEN ParseErr ELSE ParseDigits(part, 0)

(* str::trim_start_matches: every leading occurrence of ch is removed. *)
RECURSIVE trim_start_matches(_, _)
trim_start_matches(version, ch) ==
    IF version # <<>> /\ Head(version) = ch
    THEN trim_start_matches(Tail(version), ch)
    ELSE version

(* str::split: the pieces between the occurrences of ch; one piece, maybe   *)
(* empty, when there is none.                                               *)
RECURSIVE split(_, _)
split(v, ch) ==
    IF \A i \in DOMAIN v : v[i] # ch THEN <<v>>
    ELSE LET at == CHOOSE i \in DOMAIN v :
                       v[i] = ch /\ \A j \in 1..(i - 1) : v[j] # ch
         IN <<SubSeq(v, 1, at - 1)>> \o split(SubSeq(v, at + 1, Len(v)), ch)

NoVersion == [some |-> FALSE, triple |-> <<0, 0, 0>>]

SomeVersion(major, minor, patch) == [some |-> TRUE, triple |-> <<major, minor, patch>>]

(* updater.rs, lines 13-28. *)
parse_version(version) ==
    LET v == trim_start_matches(version, "v")
        parts == split(v, ".")
    IN IF Len(parts) >= 3
       THEN LET major == parse_u32(parts[1])
                minor == parse_u32(parts[2])
                patch == parse_u32(parts[3])
            IN IF major.ok /\ minor.ok /\ patch.ok
               THEN SomeVersion(major.value, minor.value, patch.value)
               ELSE NoVersion
       ELSE IF Len(parts) = 2
       THEN LET major == parse_u32(parts[1])
                minor == parse_u32(parts[2])
            IN IF major.ok /\ minor.ok
               THEN SomeVersion(major.value, minor.value, 0)
               ELSE NoVersion
       ELSE NoVersion

(* A comparison that also answers true for an equal version. *)
is_newer_or_equal_version(current, latest) ==
    LET c == parse_version(current)
        l == parse_version(latest)
    IN IF c.some /\ l.some
       THEN IF l.triple[1] > c.triple[1] THEN TRUE
            ELSE IF l.triple[1] = c.triple[1] /\ l.triple[2] > c.triple[2] THEN TRUE
            ELSE l.triple[1] = c.triple[1] /\ l.triple[2] = c.triple[2]
                     /\ l.triple[3] >= c.triple[3]
       ELSE FALSE

(* updater.rs, lines 30-46. *)
is_newer_version(current, latest) ==
    LET c == parse_version(current)
        l == parse_version(latest)
    IN IF c.some /\ l.some
       THEN IF l.triple[1] > c.triple[1] THEN TRUE
            ELSE IF l.triple[1] = c.triple[1] /\ l.triple[2] > c.triple[2] THEN TRUE
            ELSE IF l.triple[1] = c.triple[1] /\ l.triple[2] = c.triple[2]
                     /\ l.triple[3] > c.triple[3] THEN TRUE
            ELSE FALSE
       ELSE FALSE

(* The version strings checked: up to MaxLeading leading 'v', then one to   *)
(* MaxParts parts joined by '.', a part being a number of one or two        *)
(* digits or not a number.                                                  *)
PartTexts == {<<"2">>, <<"1", "0">>, <<"x">>}

Leading(n) == [i \in 1..n |-> "v"]

RECURSIVE Dotted(_)
Dotted(n) ==
    IF n = 1 THEN PartTexts
    ELSE {head \o <<".">> \o part : head \in Dotted(n - 1), part \in PartTexts}

Versions ==
    {Leading(n) \o body : n \in 0..MaxLeading,
                          body \in UNION {Dotted(k) : k \in 1..MaxParts}}

(* updater.rs, lines 72-78: check_for_updates has the running version and   *)
(* the tag of the latest release.                                           *)
UpdCheck(current, latest) ==
    /\ upd.pc = "idle"
    /\ upd' = [UpdIdle EXCEPT !.pc = "called", !.current = current, !.latest = latest]
    /\ UNCHANGED <<programVars, mix, seg, lk>>

(* updater.rs, line 78: is_newer_version(CURRENT_VERSION, &release.tag_name). *)
UpdCompare ==
    /\ upd.pc = "called"
    /\ upd' = [upd EXCEPT !.pc = "done", !.newer = is_newer_version(upd.current, upd.latest)]
    /\ UNCHANGED <<programVars, mix, seg, lk>>

(* check_for_updates returns. *)
UpdReturn ==
    /\ upd.pc = "done"
    /\ upd' = UpdIdle
    /\ UNCHANGED <<programVars, mix, seg, lk>>

NextUpdate ==
    \/ /\ upd.pc = "idle"
       /\ \E current \in Versions, latest \in Versions : UpdCheck(current, latest)
    \/ UpdCompare
    \/ UpdReturn

SpecUpdate == Init /\ [][NextUpdate]_vars


(* ------------------------------ properties ----------------------------- *)
ActiveThreads == {t \in Threads : Active(t)}

(* C1: at every moment at most one capture+mixing thread is active, under   *)
(* any sequence and interleaving of Start, Pause, Resume and Stop requests. *)
C1_AtMostOneThread == Cardinality(ActiveThreads) <= 1

(* The controller relaunches thread t on Resume, every earlier thread being *)
(* gone, after segment n > 0 of the session's recording was closed.         *)
Relaunched(t) ==
    /\ ActiveThreads = {}
    /\ current_recording_id # None
    /\ last_submitted[current_recording_id] > 0
    /\ ~Active(t)
    /\ threads'[t].pc = "loop"
    /\ threads'[t].launch = "Resume"

(* C2: if the last segment closed before a Pause had sequence n, the thread *)
(* relaunched by Resume starts its first segment at exactly n+1 under the   *)
(* same recording id.                                                       *)
C2_ResumeContinuesSequence ==
    [][\A t \in Threads :
          Relaunched(t) =>
              /\ threads'[t].rid = current_recording_id
              /\ threads'[t].seq = last_submitted[current_recording_id] + 1]_vars

(* C3: the segments submitted to upload for one recording id carry strictly *)
(* increasing sequence numbers, and no segment file is created under a name *)
(* that is already taken.                                                   *)
C3_SequencesStrictlyIncrease ==
    [][/\ \A u \in uploads' \ uploads : u.seq > last_submitted[u.rid]
       /\ \A t \in Threads :
            (threads[t].pc = "loop" /\ threads'[t].pc = "rec")
                => <<threads[t].rid, threads[t].seq>> \notin files]_vars

(* C4: from a Start until the completion of the matching Stop the published *)
(* sequence (AppState.current_sequence) never decreases.                    *)
C4_PublishedSequenceMonotone ==
    [][(current_recording_id # None /\ current_recording_id' = current_recording_id)
            => current_sequence' >= current_sequence]_vars

(* C10: in every state where status is Paused no mixing thread is running:  *)
(* the flag is clear, the thread has been joined and its in-flight segment  *)
(* has been submitted.                                                      *)
C10_PausedMeansJoined ==
    status = "Paused" => (~is_recording /\ ActiveThreads = {})

(* The results of segment uploads the step to the primed state produced. *)
UploadedNow(result) ==
    {remote'[i] : i \in {j \in DOMAIN remote' :
                            remote'[j].op = "upload" /\ remote'[j].result = result}}

TerminalCallsMade ==
    {remote[i] : i \in {j \in DOMAIN remote : remote[j].op \in {"delete", "finalize"}}}

(* C5: a session stopped with total active duration D seconds and minimum   *)
(* M minutes: if M > 0 and D < 60*M the controller calls delete and not     *)
(* finalize; otherwise it calls finalize and never delete.                  *)
C5_DiscardPolicy ==
    \A r \in TerminalCallsMade :
        IF r.min > 0 /\ r.d < 60 * r.min
        THEN {q.op : q \in TerminalCallsMade} = {"delete"}
        ELSE {q.op : q \in TerminalCallsMade} = {"finalize"}

(* C9: a permanent upload failure of segment n leaves the recording flag,   *)
(* the status and the mixing threads as they are, and the file of segment n *)
(* in place.                                                                *)
C9_FailureDoesNotAbort ==
    [][\A r \in UploadedNow("Err") :
          /\ is_recording' = is_recording
          /\ status' = status
          /\ threads' = threads
          /\ files' = files]_vars

(* The upload of segment n has just failed for good while its thread, the   *)
(* flag still set and status Recording, records a later segment; the file   *)
(* of segment n is still there.                                             *)
C9_Witness ==
    \E i \in DOMAIN remote :
        /\ remote[i].op = "upload"
        /\ remote[i].result = "Err"
        /\ threads[remote[i].owner].pc = "rec"
        /\ threads[remote[i].owner].rid = remote[i].rid
        /\ threads[remote[i].owner].seq > remote[i].seq
        /\ is_recording
        /\ status = "Recording"
        /\ <<remote[i].rid, remote[i].seq>> \in files

(* upload_segment has returned Err: every attempt failed. *)
AllAttemptsFailed == up.pc = "returned" /\ up.result = "Err"

C7_DeletedOnlyAfterSuccess ==
    [][\A f \in files \ files' :
          /\ up.pc = "returned"
          /\ up.result = "Ok"
          /\ f = <<up.rid, up.seq>>]_vars

(* A segment's upload succeeded after retries and its file is gone, while   *)
(* the file of a segment whose upload failed is still there.                *)
C7_Witness ==
    /\ up.pc = "done"
    /\ up.result = "Ok"
    /\ up.attempts > 1
    /\ <<up.rid, up.seq>> \notin files
    /\ files # {}

(* A Start request was answered 400 by the step to the primed state. *)
StartRejectedNow ==
    \E i \in DOMAIN remote' : remote'[i] = Response("start", "BAD_REQUEST")

(* A Start request passes the status check in the step to the primed state. *)
StartAcceptedNow ==
    \E h \in Handlers : handlers[h].op = "none" /\ handlers'[h].op = "start"

(* C11: a Start request received while status is neither Idle nor           *)
(* BackendOffline is rejected and changes nothing: it passes no status      *)
(* check, no command is enqueued, and status, recording id, sequence,       *)
(* start time and accumulated duration stay as they are.                    *)
C11_StartRejectedChangesNothing ==
    [][/\ StartAcceptedNow => status \in {"Idle", "BackendOffline"}
       /\ StartRejectedNow =>
            /\ status \notin {"Idle", "BackendOffline"}
            /\ audio_command' = audio_command
            /\ sessionVars' = sessionVars
            /\ handlers' = handlers]_vars

(* A Start request has just been answered 400 during a recording. *)
C11_Witness ==
    /\ remote = <<Response("start", "BAD_REQUEST")>>
    /\ status = "Recording"
    /\ current_recording_id # None

(* Thread t's run() returns Err in the step to the primed state: the       *)
(* thread ends without draining its uploads.                                *)
FailsNow(t) ==
    /\ threads[t].pc \in {"loop", "rec"}
    /\ threads'[t].pc \in {"none", "done"}

(* C12: when the capture thread fails, the status becomes Error(reason) and *)
(* the shared recording flag is cleared.                                    *)
C12_FailureClearsFlag ==
    [][\A t \in Threads :
          FailsNow(t) => (status' = "Error" /\ ~is_recording')]_vars

(* Thread t is launched by the step to the primed state. *)
LaunchedNow(t) == threads'[t].pc = "loop" /\ threads[t].pc \in {"none", "done"}

(* C13: after a capture-thread failure the controller relaunches capture    *)
(* only on a command, never on its own, and a Start request issued while    *)
(* status is Error(reason) is accepted, not rejected.                       *)
C13_StartAcceptedAfterError ==
    [][/\ \A t \in Threads :
            LaunchedNow(t) =>
                /\ audio_command # <<>>
                /\ Head(audio_command).op \in {"Start", "Resume"}
                /\ audio_command' = Tail(audio_command)
       /\ status = "Error" => ~StartRejectedNow]_vars

(* Thread t, launched by Start, fails before its first segment (no output   *)
(* device) in the step to the primed state.                                 *)
FailsAtStart(t) ==
    /\ FailsNow(t)
    /\ threads[t].pc = "loop"
    /\ threads[t].launch = "Start"

(* C14: with no output device at the start of a session the capture attempt *)
(* aborts without creating a segment, the status ends as Error(reason) and  *)
(* stays Error until the next request is received.                          *)
C14_ErrorStaysUntilNextRequest ==
    [][/\ \A t \in Threads :
            FailsAtStart(t) => (status' = "Error" /\ files' = files /\ uploads' = uploads)
       /\ (status = "Error" /\ status' # "Error") => requests' = requests + 1]_vars

(* A capture whose input device is missing or cannot be configured, the     *)
(* output device being there and working.                                   *)
NoInputDevice ==
    /\ cap.pc # "idle"
    /\ cap.input \in {"none", "config_err"}
    /\ cap.output = "ok"

(* C15: with no usable input device and an output device, Start does not    *)
(* fail: status is Recording and not Error, no mic stream exists and the    *)
(* silence generator runs while the flag is set, every mic chunk is a chunk *)
(* of zeros, and the segment is written at the 48 kHz fallback rate.        *)
C15_SilenceFallback ==
    NoInputDevice =>
        /\ status = "Recording"
        /\ cap.pc \in {"generator", "sys", "loop", "rec", "done"}
              => (~cap.mic_stream /\ cap.rate = 48000)
        /\ cap.pc \in {"sys", "loop", "rec"} => (cap.generator \/ ~is_recording)
        /\ \A i \in DOMAIN cap.mic_rx : cap.mic_rx[i] = [kind |-> "zeros", n |-> 4800]
        /\ cap.wav.exists => cap.wav.rate = 48000

(* A session without input device has recorded and closed a segment of      *)
(* generator chunks at 48 kHz.                                              *)
C15_Witness ==
    /\ NoInputDevice
    /\ cap.pc = "done"
    /\ cap.wav.exists /\ ~cap.wav.open
    /\ cap.wav.rate = 48000
    /\ cap.wav.samples = 9600
    /\ status = "Recording"

(* C16: finalize (or delete) for a recording is called only after every     *)
(* segment upload task of that recording has terminated: at the call no     *)
(* upload of the recording is in flight and no segment of it is still being *)
(* recorded, to be uploaded afterwards.                                     *)
C16_UploadsDoneBeforeTerminalCall ==
    \A r \in TerminalCallsMade :
        /\ \A u \in uploads : u.rid # r.rid
        /\ \A t \in Threads : threads[t].pc = "rec" => threads[t].rid # r.rid

(* The terminal calls of the current step, in order: operation and result. *)
TerminalPattern ==
    [i \in {j \in DOMAIN remote : remote[j].op \in {"delete", "finalize"}} |->
        <<remote[i].op, remote[i].result>>]

(* C17: for each session ended by Stop the terminal calls are finalize      *)
(* alone, or delete alone (delete succeeded), or delete followed by         *)
(* finalize when delete failed; neither call is issued more than once per   *)
(* session, so no two cleanup threads ever serve the same recording.        *)
C17_TerminalCallsOncePerSession ==
    /\ TerminalCallsMade # {} =>
          \/ TerminalPattern \in {<<<<"finalize", "Ok">>>>, <<<<"finalize", "Err">>>>}
          \/ TerminalPattern = <<<<"delete", "Ok">>>>
          \/ TerminalPattern \in {<<<<"delete", "Err">>, <<"finalize", "Ok">>>>,
                                  <<<<"delete", "Err">>, <<"finalize", "Err">>>>}
    /\ \A c1, c2 \in Cleanups :
          (c1 # c2 /\ cleanups[c1].pc = "run" /\ cleanups[c2].pc = "run")
              => cleanups[c1].rid # cleanups[c2].rid

(* The controller waits in the join of a Pause for a thread that has left   *)
(* the mixing loop: the in-flight segment has been submitted.               *)
PauseJoinAfterSubmit ==
    /\ ctl.pc = "join_pause"
    /\ ctl.t # None
    /\ threads[ctl.t].pc = "drain"

C19_LoopNeverWaitsOnUpload ==
    \A t \in Threads :
        is_recording =>
            /\ threads[t].pc = "loop" => ENABLED ThreadOpen(t)
            /\ (threads[t].pc = "rec" /\ SegmentOver(t)) => ENABLED ThreadClose(t)

(* Segment n reached the maximum duration with the flag set; segment n+1    *)
(* is being recorded while the upload of segment n is still pending.        *)
C19_Witness ==
    \E t \in Threads :
        /\ is_recording
        /\ threads[t].pc = "rec"
        /\ threads[t].seq > 1
        /\ threads[t].seg_start >= MAX_SEGMENT_DURATION_SECS
        /\ \E u \in uploads :
              u.owner = t /\ u.rid = threads[t].rid /\ u.seq + 1 = threads[t].seq

(* A Stop request has been accepted for a session that has a recording id:  *)
(* its command is in the channel.                                           *)
StopRequested ==
    /\ current_recording_id # None
    /\ \E i \in 1..Len(audio_command) : audio_command[i].op = "Stop"

SessionReset ==
    /\ status = "Idle"
    /\ current_recording_id = None
    /\ current_sequence = 1

(* C20: after a Stop request the session eventually reaches status Idle     *)
(* with the recording id cleared and the sequence back at 1, every HTTP     *)
(* call returning, whatever the status was and whatever finalize and        *)
(* delete answer.                                                           *)
C20_StopLeadsToIdle == StopRequested ~> SessionReset

(* The cleanup thread of a Stop has just run: finalize failed for good and  *)
(* the session is reset all the same.                                       *)
C20_Witness ==
    /\ SessionReset
    /\ remote # <<>>
    /\ remote[Len(remote)].op = "finalize"
    /\ remote[Len(remote)].result = "Err"

(* C21: while the recording flag is false, neither the microphone callback  *)
(* nor the system-audio callback enqueues a chunk on its channel to the     *)
(* mixing loop.                                                             *)
C21_CallbacksGatedByFlag ==
    [][~is_recording => /\ Len(cap'.mic_rx) <= Len(cap.mic_rx)
                        /\ Len(cap'.sys_rx) <= Len(cap.sys_rx)]_vars

MaxOf(S) == IF S = {} THEN 0 ELSE CHOOSE m \in S : \A x \in S : x <= m

(* A take of the named meter has just acted. *)
Took(op) == remote' # <<>> /\ remote'[1].op = op

(* C22: for each direction the meter holds the maximum of the levels        *)
(* recorded since the previous take (0 if none), whatever the order of the  *)
(* records, and a take returns that maximum and resets the meter to 0.      *)
C22_LevelMaxAndReset ==
    /\ [](/\ cap.input_level = MaxOf(cap.in_seen)
          /\ cap.output_level = MaxOf(cap.out_seen))
    /\ [][/\ Took("input_level") =>
                /\ remote'[1].value = MaxOf(cap.in_seen)
                /\ cap'.input_level = 0
          /\ Took("output_level") =>
                /\ remote'[1].value = MaxOf(cap.out_seen)
                /\ cap'.output_level = 0]_vars

(* After three records a take has just returned the clamped peak 100 and   *)
(* reset the input meter; the undrained peak of the other meter stays.      *)
C22_Witness ==
    /\ remote = <<[op |-> "input_level", value |-> 100]>>
    /\ cap.sent = MaxChunks
    /\ cap.input_level = 0
    /\ cap.out_seen = {30, 70}
    /\ cap.output_level = 70

(* C23: every PCM sample the mixing loop writes lies in [-32768, 32767],    *)
(* and the scaled sum was already in that range before the conversion to    *)
(* 16 bits, which therefore neither saturates nor wraps (NaN becomes 0).    *)
C23_SamplesWithin16Bits ==
    \A i \in 1..Len(mix.written) :
        /\ mix.written[i].pcm \in I16_MIN..I16_MAX
        /\ mix.written[i].scaled # NaN => mix.written[i].pcm = mix.written[i].scaled
        /\ mix.written[i].scaled = NaN => mix.written[i].pcm = 0

(* Mic and system both saturated positive, then both saturated negative. *)
C23_Witness ==
    /\ mix.mic_data = <<1500, NegInf>>
    /\ mix.collected = <<1000, -1000>>
    /\ mix.written = <<[scaled |-> I16_MAX, pcm |-> I16_MAX],
                       [scaled |-> -I16_MAX, pcm |-> -I16_MAX]>>

Pcm(mixed) == AsI16(TimesMax(HardClip(mixed)))

Smaller(a, b) == IF a <= b THEN a ELSE b

(* C29: a mic chunk of n samples against a system buffer of m samples       *)
(* writes n samples in mic order, sample i mixed with system sample i for   *)
(* i <= min(n, m) and alone after that; the buffer then holds its samples   *)
(* after the n-th; what is left carries over to the next chunk and to the   *)
(* next segment.                                                            *)
C29_ChunkMixedInOrder ==
    /\ [](mix.mic_data # <<>> =>
            LET n == Len(mix.mic_data)
                m == Len(mix.collected)
            IN /\ Len(mix.written) = n
               /\ \A i \in 1..n :
                     mix.written[i].pcm =
                        IF i <= Smaller(n, m)
                        THEN Pcm(FAdd(mix.mic_data[i], mix.collected[i]))
                        ELSE Pcm(mix.mic_data[i])
               /\ mix.sys_buffer = SubSeq(mix.collected, n + 1, m))
    /\ [][/\ mix'.chunks # mix.chunks /\ mix.pc = "rec" =>
                SubSeq(mix'.collected, 1, Len(mix.sys_buffer)) = mix.sys_buffer
          /\ mix'.seq # mix.seq /\ mix.pc = "rec" =>
                mix'.sys_buffer = mix.sys_buffer]_vars

(* In the second segment a chunk of one sample met three system samples,    *)
(* one of them left over from the first segment: two are left.              *)
C29_Witness ==
    /\ mix.seq = 2
    /\ mix.chunks = MaxMixChunks
    /\ Len(mix.mic_data) = 1
    /\ Len(mix.collected) = 3
    /\ mix.sys_buffer = SubSeq(mix.collected, 2, 3)
    /\ mix.collected[1] = 1000
    /\ mix.sys_buffer = <<-1000, -1000>>

(* C24: no segment's recorded duration exceeds the maximum segment          *)
(* duration, and no mic chunk is written to a segment once its elapsed      *)
(* time has reached the maximum.                                            *)
C24_SegmentWithinMaximum ==
    /\ seg.late = 0
    /\ seg.recorded_ms <= MaxSegmentMs
    /\ \A i \in 1..Len(seg.durations) : seg.durations[i] <= MaxSegmentMs

(* C25: in a session that is Recording or Paused, no start request being    *)
(* served, accumulated_duration plus the elapsed time of the current active interval equals the time     *)
(* the session has spent actively recording, and recording_start_time is    *)
(* absent while Paused.                                                     *)
C25_ActiveTimeAccounted ==
    (/\ current_recording_id # None
     /\ status \in {"Recording", "Paused"}
     /\ \A h \in Handlers : handlers[h] = NoHandler) =>
        /\ Accumulated = active_secs
        /\ status = "Paused" => recording_start_time = NoTime

(* One chunk interval, in the whole seconds of the clock. *)
ToleranceSecs == (CHUNK_DURATION_MS + 999) \div 1000

Distance(a, b) == IF a >= b THEN a - b ELSE b - a

(* C26: for every recorded session the durations of its segments add up to  *)
(* the total active duration the controller reports at Stop, within one     *)
(* chunk interval.                                                          *)
C26_SegmentsAddUpToReported ==
    \A c \in Cleanups :
        (/\ cleanups[c].pc = "run"
         /\ Joined /\ uploads = {}
         /\ cleanups[c].d > 0
         /\ segment_secs[cleanups[c].rid] = cleanups[c].d) =>
            Distance(segment_secs[cleanups[c].rid], cleanups[c].duration) <= ToleranceSecs

Enqueued == 
    /\ Len(audio_command') = Len(audio_command) + 1
    /\ SubSeq(audio_command', 1, Len(audio_command)) = audio_command

Dequeued == audio_command # <<>> /\ audio_command' = Tail(audio_command)

Joining == ctl.pc \in {"join_pause", "join_stop"}

(* Where the controller is after it has taken command op. *)
HandlingOf(op) ==
    CASE op = "Pause" -> "join_pause"
      [] op = "Stop" -> "join_stop"
      [] OTHER -> "recv"

(* C27: the controller handles the commands in the order they were          *)
(* enqueued and one at a time: the queue only grows at its tail and         *)
(* shrinks at its head, the head is taken only when the handling of the     *)
(* previous command has returned, and the handling of Pause and Stop        *)
(* returns only when the join of the mixing thread has.                     *)
C27_CommandsInOrderOneAtATime ==
    [][/\ audio_command' # audio_command =>
            \/ Enqueued
            \/ /\ Dequeued
               /\ ~Joining
               /\ ctl'.pc = HandlingOf(Head(audio_command).op)
       /\ (Joining /\ ctl' # ctl) => (Joined /\ ctl'.pc = "recv")
       /\ (~Joining /\ ctl' # ctl) => Dequeued]_vars

(* A Pause or Stop is being handled, its mixing thread has not returned,    *)
(* and the next command waits in the queue.                                 *)
C27_Witness ==
    /\ Joining
    /\ ~Joined
    /\ audio_command # <<>>

(* Strictly greater in the lexicographic order of triples. *)
LexGreater(a, b) ==
    \E i \in 1..3 : a[i] > b[i] /\ \A j \in 1..(i - 1) : a[j] = b[j]

Compared == upd.pc = "done"

(* C28: is_newer_version(current, latest) is true exactly when both parse   *)
(* and latest's (major, minor, patch) is strictly greater, in               *)
(* lexicographic order, than current's; a leading 'v' on either side        *)
(* changes nothing; the answer is false for an equal version and is never   *)
(* true in both directions.                                                 *)
C28_NewerIffStrictlyGreater ==
    Compared =>
        LET c == parse_version(upd.current)
            l == parse_version(upd.latest)
        IN /\ upd.newer <=> (c.some /\ l.some /\ LexGreater(l.triple, c.triple))
           /\ upd.newer = is_newer_version(<<"v">> \o upd.current, upd.latest)
           /\ upd.newer = is_newer_version(upd.current, <<"v">> \o upd.latest)
           /\ (c.some /\ l.some /\ c.triple = l.triple) => ~upd.newer
           /\ ~is_newer_version(upd.current, upd.current)
           /\ ~(upd.newer /\ is_newer_version(upd.latest, upd.current))

(* A two-part current version with a leading 'v' against a four-part latest *)
(* one that differs only in the patch: the newer one is found.              *)
C28_Witness ==
    /\ Compared
    /\ upd.current = <<"v", "2", ".", "1", "0">>
    /\ upd.latest = <<"2", ".", "1", "0", ".", "2", ".", "x">>
    /\ upd.newer

(* The upload task of the segment thread t has open. *)
TaskOf(t) == [owner |-> t, rid |-> threads[t].rid, seq |-> threads[t].seq]

InLoop(t) == threads[t].pc \in {"loop", "rec", "drain"}

(* Thread t closes its segment: the one task of that segment is spawned,    *)
(* the next sequence is the thread's and the session's.                     *)
SubmitsAndPublishes(t) ==
    /\ threads[t].pc = "rec"
    /\ uploads' \ uploads = {TaskOf(t)}
    /\ threads'[t].pc = "loop"
    /\ threads'[t].seq = threads[t].seq + 1
    /\ current_sequence' = threads[t].seq + 1

(* Thread t returns an error: nothing is submitted, the status is Error. *)
ReturnsError(t) ==
    /\ threads'[t].pc \in {"done", "none"}
    /\ \A u \in uploads' \ uploads : u.owner # t
    /\ status' = "Error"

(* Nothing of thread t is submitted and its sequence stays. *)
KeepsSegment(t) ==
    /\ \A u \in uploads' \ uploads : u.owner # t
    /\ InLoop(t) /\ InLoop(t)' => threads'[t].seq = threads[t].seq

(* C30: each segment file the mixing loop creates is finalized and          *)
(* submitted exactly once, in sequence order: a loop that has a segment     *)
(* open leaves it only by submitting that segment and publishing the next   *)
(* sequence, and submits or renumbers at no other step.                     *)
C30_EverySegmentSubmittedOnce ==
    [][\A t \in Threads :
          IF threads[t].pc = "rec" /\ threads'[t] # threads[t]
          THEN SubmitsAndPublishes(t)
          ELSE KeepsSegment(t)]_vars

(* C30, but for a loop that returns an error (WavWriter::create or          *)
(* finalize failed): its open segment is not submitted.                     *)
C30_SubmittedOnceUnlessError ==
    [][\A t \in Threads :
          IF threads[t].pc = "rec" /\ threads'[t] # threads[t]
          THEN SubmitsAndPublishes(t) \/ ReturnsError(t)
          ELSE KeepsSegment(t)]_vars

(* One loop has submitted segments 1 and 2, both tasks still running, and   *)
(* has published 3.                                                         *)
C30_Witness ==
    \E t \in Threads :
        /\ threads[t].pc = "loop"
        /\ threads[t].seq = 3
        /\ current_sequence = 3
        /\ {u.seq : u \in Pending(t)} = {1, 2}

(* The whole program with every thread that can run running. *)
SpecFair == Init /\ [][Next]_vars /\ Fairness

(* A Pause request has been served and the controller has cleared the flag  *)
(* while thread t has a segment open.                                       *)
PausedWhileRecording(t) ==
    /\ threads[t].pc = "rec"
    /\ ~is_recording
    /\ status = "Paused"
    /\ \A h \in Handlers : handlers[h] = NoHandler

AnswerPatterns == [1..(MAX_ATTEMPTS + 1) -> BOOLEAN]

(* The number of the first successful answer of a pattern, 0 if none. *)
FirstSuccess(resps) ==
    IF \A i \in DOMAIN resps : ~resps[i] THEN 0
    ELSE CHOOSE i \in DOMAIN resps : resps[i] /\ \A j \in 1..(i - 1) : ~resps[j]

(* The loop run on a pattern stops at the first success or after           *)
(* MAX_ATTEMPTS failures.                                                   *)
StopsAtFirstSuccess(resps) ==
    LET r == UploadRun(NewCall, resps)
        first == FirstSuccess(resps)
    IN /\ r.attempts <= MAX_ATTEMPTS
       /\ IF first \in 1..MAX_ATTEMPTS
          THEN r.result = "Ok" /\ r.attempts = first /\ Len(r.waits) = first - 1
          ELSE r.result = "Err" /\ r.attempts = MAX_ATTEMPTS

(* C32: upload_segment and finalize_recording make at most 5 attempts for   *)
(* any pattern of responses, and return success at the first successful     *)
(* response with no further attempt and no further wait.                    *)
C32_AtMostFiveAttempts ==
    /\ [](/\ up.attempts <= MAX_ATTEMPTS
          /\ up.result = "Ok" => Len(up.waits) = up.attempts - 1
          /\ \A resps \in AnswerPatterns :
                /\ StopsAtFirstSuccess(resps)
                /\ finalize_recording(resps) = UploadRun(NewCall, resps).result
                /\ upload_segment(resps) = UploadRun(NewCall, resps).result)
    /\ [][/\ (up.pc = "attempt" /\ up'.result = "Ok") =>
                (up'.pc = "returned" /\ up'.waits = up.waits
                                     /\ up'.attempts = up.attempts + 1)
          /\ up.pc \in {"returned", "done"} =>
                (up'.attempts = up.attempts \/ up' = UpIdle)]_vars

(* upload_segment has returned success at its third attempt, after two     *)
(* waits.                                                                   *)
C32_Witness ==
    /\ up.pc = "returned"
    /\ up.result = "Ok"
    /\ up.attempts = 3
    /\ up.waits = <<2, 4>>

HealthAnswered(ok) == remote = <<Answered(ok)>>

(* C33: a health check changes the status only from Idle to BackendOffline  *)
(* (failed check) and from BackendOffline to Idle (successful check); it    *)
(* leaves Recording, Paused, Uploading and Error as they are and never      *)
(* touches the recording id, the sequence or the timing fields.             *)
C33_HealthCheckFrame ==
    [][\A ok \in BOOLEAN : HealthAnswered(ok)' =>
          /\ status' = CASE status = "Idle" /\ ~ok -> "BackendOffline"
                         [] status = "BackendOffline" /\ ok -> "Idle"
                         [] OTHER -> status
          /\ UNCHANGED <<current_recording_id, current_sequence,
                         recording_start_time, accumulated_duration>>]_vars

(* A health check has failed during a recording: the status is still       *)
(* Recording.                                                               *)
C33_Witness ==
    /\ HealthAnswered(FALSE)
    /\ status = "Recording"
    /\ current_recording_id # None

GeneratorsAlive == cap.orphans + (IF cap.generator THEN 1 ELSE 0)

(* C34: a silence generator ends with the recording interval that spawned   *)
(* it (Pause, Stop or a capture failure), so that at most one generator     *)
(* thread is alive at any time, also when Resume sets the flag again right  *)
(* after a Pause.                                                           *)
C34_AtMostOneGenerator == GeneratorsAlive <= 1

(* C35: whenever status is Idle or BackendOffline no capture+mixing thread  *)
(* is running and the recording flag is false (no Start request being       *)
(* served at that moment).                                                  *)
C35_IdleMeansNothingRuns ==
    (/\ status \in {"Idle", "BackendOffline"}
     /\ \A h \in Handlers : handlers[h] = NoHandler) =>
        /\ ~is_recording
        /\ \A t \in Threads : ~Active(t)

(* A Start or Resume command waits in the channel. *)
LaunchQueued ==
    \E i \in DOMAIN audio_command : audio_command[i].op \in {"Start", "Resume"}

(* C36: whenever status is Recording (or Paused) a recording id is set, and *)
(* while Recording a capture+mixing thread runs or is about to be launched  *)
(* for it: a request arriving with no session active leaves no status       *)
(* Recording or Paused without a session.                                   *)
C36_RecordingHasSession ==
    /\ status \in {"Recording", "Paused"} => current_recording_id # None
    /\ status = "Recording" =>
          \/ \E t \in Threads : Active(t) /\ threads[t].rid = current_recording_id
          \/ LaunchQueued

(* The HTTP server serves requests concurrently on the tokio runtime        *)
(* (server.rs, axum::serve): the same program with MaxConcurrent Start      *)
(* requests in flight at once.                                              *)
NextStart ==
    \/ \E h \in Concurrent : Admitted /\ StartCheck(h)
    \/ \E h \in Concurrent : Admitted /\ StartReject(h)
    \/ \E h \in Concurrent, ok \in BOOLEAN : StartInit(h, ok)
    \/ \E h \in Concurrent : StartSend(h)
    \/ \E h \in Concurrent : StartStatus(h)
    \/ NextLive

SpecStart == InitWith(Concurrent) /\ [][NextStart]_vars

(* The Start handlers that have passed the status check and not yet        *)
(* returned.                                                                *)
PastCheck == {h \in DOMAIN handlers : handlers[h].op = "start"}

(* C37: two Start requests handled concurrently cannot both be accepted:    *)
(* between a handler's status check and its write of Recording no second    *)
(* Start passes the check.                                                  *)
C37_OneStartPastTheCheck == Cardinality(PastCheck) <= 1

(* The locks do not depend on the configured minimum meeting length. *)
InitLock == Init /\ min_meeting_length = 0

SpecLock == InitLock /\ [][NextLock]_vars

(* A thread waits: it is at a blocking lock of a mutex that is owned. *)
Waiting(p) ==
    /\ Inside(p)
    /\ OpAt(p).op \in {"touch", "lock"}
    /\ Owner(OpAt(p).m) # NoOwner

WaitsFor(p) == Owner(OpAt(p).m)

Held(p) == {m \in Mutexes : Owner(m) = p}

(* The threads reached from p along the waits, p itself left out unless a   *)
(* wait leads back to it.                                                   *)
RECURSIVE WaitChain(_, _)
WaitChain(p, n) ==
    IF n = 0 \/ ~Waiting(p)
    THEN {}
    ELSE {WaitsFor(p)} \cup WaitChain(WaitsFor(p), n - 1)

WaitsOnItself(p) == p \in WaitChain(p, Cardinality(LockProcs))

(* C38: mutex acquisition across the handlers, the controller, the cleanup  *)
(* thread, the mixing thread and the health-check loop is deadlock-free: no *)
(* reachable state has a set of these threads each waiting for a mutex      *)
(* owned by a thread of the set.                                            *)
C38_NoLockCycle == \A p \in LockProcs : ~WaitsOnItself(p)

(* A thread holds two mutexes while another waits for one of them. *)
C38_Witness ==
    \E p, q \in LockProcs :
        /\ Cardinality(Held(p)) >= 2
        /\ Waiting(q)
        /\ WaitsFor(q) = p

(* C39: the two mixing implementations are equivalent: given the same mic   *)
(* chunks and system chunks, the index-based mix with drain-or-clear of     *)
(* src/audio.rs and the remove-from-front mix of src-tauri/src/audio.rs     *)
(* write the same samples and leave the same system buffer after every      *)
(* chunk.                                                                   *)
C39_MixesAgree ==
    /\ mix.legacy_written = mix.written
    /\ mix.legacy_buffer = mix.sys_buffer

(* A second chunk was mixed with system samples left over from the first,   *)
(* fewer of them than mic samples, one of the mic samples a NaN.            *)
C39_Witness ==
    /\ mix.chunks = 2
    /\ mix.collected # <<>>
    /\ Len(mix.collected) < Len(mix.mic_data)
    /\ \E i \in DOMAIN mix.mic_data : mix.mic_data[i] = NaN
    /\ mix.written # <<>>
====
